---- MODULE Spec2Model ----
(***************************************************************************)
(* The lexical retrieval engine of the NHAI circulars RAG system           *)
(* (src/app.py, class SimpleHuggingFaceRAG): text normalisation, the       *)
(* TF-IDF index and the cosine-similarity search.                          *)
(*                                                                         *)
(* Texts are sequences of one-character strings, so that the regular       *)
(* expressions of clean_ocr_text and preprocess_text act on characters.    *)
(* Tokens are strings.  Numbers are exact: a weight is a rational          *)
(* [n |-> numerator, d |-> denominator] in lowest terms, math.log is the   *)
(* fixed-point table Log (unit 1/LogScale), and a similarity s is held as  *)
(* its signed square s * |s|, which orders and compares exactly as s does  *)
(* (the square root of the code is irrational).  Floating-point rounding   *)
(* is not modelled.                                                        *)
(***************************************************************************)
EXTENDS Integers, Sequences, FiniteSets, TLC

(***************************************************************************)
(* Characters                                                              *)
(***************************************************************************)
LowerLetters ==
    <<"a","b","c","d","e","f","g","h","i","j","k","l","m",
      "n","o","p","q","r","s","t","u","v","w","x","y","z">>

UpperLetters ==
    <<"A","B","C","D","E","F","G","H","I","J","K","L","M",
      "N","O","P","Q","R","S","T","U","V","W","X","Y","Z">>

Range(s) == {s[i] : i \in DOMAIN s}

Lower == Range(LowerLetters)

Upper == Range(UpperLetters)

Digit == {"0","1","2","3","4","5","6","7","8","9"}

\* \s of the regular expressions, as far as the texts of the model use it
Whitespace == {" ", "\n"}

\* \w of the regular expressions (ASCII part)
WordChar == Lower \cup Upper \cup Digit \cup {"_"}

\* str.lower() on one character
ToLower(c) ==
    IF c \in Upper
    THEN LowerLetters[CHOOSE i \in DOMAIN UpperLetters : UpperLetters[i] = c]
    ELSE c

(***************************************************************************)
(* clean_ocr_text (src/app.py:67-75)                                       *)
(***************************************************************************)
\* last index of the maximal run of Class characters that starts at i
RunEnd(s, i, Class) ==
    CHOOSE j \in i..Len(s) :
        /\ \A k \in i..j : s[k] \in Class
        /\ j = Len(s) \/ s[j + 1] \notin Class

\* the characters of s that are not in Class
Outside(s, Class) == Range(s) \ Class

\* re.sub(r'\s+', ' ', s), from position i on (run by run)
RECURSIVE CollapseFrom(_, _)
CollapseFrom(s, i) ==
    IF i > Len(s) THEN << >>
    ELSE IF s[i] \in Whitespace
         THEN <<" ">> \o CollapseFrom(s, RunEnd(s, i, Whitespace) + 1)
         ELSE LET j == RunEnd(s, i, Outside(s, Whitespace))
              IN  SubSeq(s, i, j) \o CollapseFrom(s, j + 1)

\* re.sub(r'[A-Z]{2,}', ' ', s), from position i on (run by run)
RECURSIVE CapsRunsFrom(_, _)
CapsRunsFrom(s, i) ==
    IF i > Len(s) THEN << >>
    ELSE IF s[i] \in Upper
         THEN LET j == RunEnd(s, i, Upper)
              IN  (IF j > i THEN <<" ">> ELSE <<s[i]>>) \o CapsRunsFrom(s, j + 1)
         ELSE LET j == RunEnd(s, i, Outside(s, Upper))
              IN  SubSeq(s, i, j) \o CapsRunsFrom(s, j + 1)

\* \b[A-Z]{1,2}\b matches n characters at position i
ShortCapsAt(s, i, n) ==
    LET \* \b between positions p-1 and p of s
        WordBoundary(p) ==
            (p > 1 /\ s[p - 1] \in WordChar) # (p <= Len(s) /\ s[p] \in WordChar)
    IN  /\ i + n - 1 <= Len(s)
        /\ \A k \in i..(i + n - 1) : s[k] \in Upper
        /\ WordBoundary(i)
        /\ WordBoundary(i + n)

\* re.sub(r'\b[A-Z]{1,2}\b', ' ', s), from position i on (a run without
\* capitals holds no match and is copied as a whole)
RECURSIVE ShortCapsFrom(_, _)
ShortCapsFrom(s, i) ==
    IF i > Len(s) THEN << >>
    ELSE IF ShortCapsAt(s, i, 2) THEN <<" ">> \o ShortCapsFrom(s, i + 2)
    ELSE IF ShortCapsAt(s, i, 1) THEN <<" ">> \o ShortCapsFrom(s, i + 1)
    ELSE IF s[i] \in Upper THEN <<s[i]>> \o ShortCapsFrom(s, i + 1)
    ELSE LET j == RunEnd(s, i, Outside(s, Upper))
         IN  SubSeq(s, i, j) \o ShortCapsFrom(s, j + 1)

\* str.strip()
Strip(s) ==
    LET solid == {i \in DOMAIN s : s[i] \notin Whitespace}
    IN  IF solid = {} THEN << >>
        ELSE SubSeq(s, CHOOSE i \in solid : \A j \in solid : i <= j,
                       CHOOSE i \in solid : \A j \in solid : i >= j)

clean_ocr_text(text) ==
    LET \* the character class of the first re.sub (its backquote is left
        \* out: the lexer of TLA+ does not take it, and no text of the model
        \* holds one)
        OcrArtifacts ==
            {"#","@","$","%","^","&","*","(",")","_","+","-","=","[","]","{","}","|",
             "\\",":","\"",";","'","<",">","?",",",".","/","~"}
        \* the characters the second re.sub keeps: [\w\s\.\,\-\d]
        KeptChars == WordChar \cup Whitespace \cup {".", ",", "-"}
        t1 == [i \in DOMAIN text |-> IF text[i] \in OcrArtifacts THEN " " ELSE text[i]]
        t2 == [i \in DOMAIN t1 |-> IF t1[i] \in KeptChars THEN t1[i] ELSE " "]
        t3 == CollapseFrom(t2, 1)
        t4 == CapsRunsFrom(t3, 1)
        t5 == ShortCapsFrom(t4, 1)
    IN  Strip(t5)

(***************************************************************************)
(* preprocess_text (src/app.py:77-84)                                      *)
(***************************************************************************)
stop_words ==
    {"the", "a", "an", "and", "or", "but", "in", "on", "at", "to", "for", "of",
     "with", "by", "is", "are", "was", "were", "be", "been", "have", "has",
     "had", "do", "does", "did", "will", "would", "could", "should", "may",
     "might", "must", "can", "this", "that", "these", "those", "i", "you",
     "he", "she", "it", "we", "they", "me", "him", "her", "us", "them", "my",
     "your", "his", "its", "our", "their", "mine", "yours", "hers", "ours",
     "theirs"}

\* the characters of cs joined into one string
RECURSIVE Join(_)
Join(cs) == IF cs = << >> THEN "" ELSE Head(cs) \o Join(Tail(cs))

\* str.split(): the maximal runs of non-whitespace characters of s[i..]
RECURSIVE SplitFrom(_, _)
SplitFrom(s, i) ==
    IF i > Len(s) THEN << >>
    ELSE IF s[i] \in Whitespace
         THEN SplitFrom(s, RunEnd(s, i, Whitespace) + 1)
         ELSE LET j == RunEnd(s, i, Outside(s, Whitespace))
              IN  <<Join(SubSeq(s, i, j))>> \o SplitFrom(s, j + 1)

\* words of two characters kept
KeepWord_TwoCharacters(word) == word \notin stop_words /\ Len(word) >= 2

\* the minimum-length rule and the stop-word rule of preprocess_text
KeepWord(word) == word \notin stop_words /\ Len(word) > 2

preprocess_text(text) ==
    LET lowered == [i \in DOMAIN text |-> ToLower(text[i])]
        subbed  == [i \in DOMAIN lowered |->
                        IF lowered[i] \in Lower \cup Digit \cup Whitespace
                        THEN lowered[i] ELSE " "]
        words   == SplitFrom(subbed, 1)
    IN  SelectSeq(words, KeepWord)

(***************************************************************************)
(* Exact arithmetic: rationals in lowest terms with a positive denominator *)
(***************************************************************************)
Abs(x) == IF x < 0 THEN 0 - x ELSE x

RECURSIVE GCD(_, _)
GCD(a, b) == IF b = 0 THEN a ELSE GCD(b, a % b)

\* the rational n / d (d > 0) in lowest terms
Rat(n, d) ==
    LET g == GCD(Abs(n), d) IN [n |-> n \div g, d |-> d \div g]

Zero == [n |-> 0, d |-> 1]

One == [n |-> 1, d |-> 1]

RatMul(a, b) ==
    LET g1 == GCD(Abs(a.n), b.d)
        g2 == GCD(Abs(b.n), a.d)
    IN  [n |-> (a.n \div g1) * (b.n \div g2), d |-> (a.d \div g2) * (b.d \div g1)]

RatAdd(a, b) ==
    LET g == GCD(a.d, b.d)
    IN  Rat(a.n * (b.d \div g) + b.n * (a.d \div g), (a.d \div g) * b.d)

\* a / b for b > 0
RatDiv(a, b) == RatMul(a, [n |-> b.d, d |-> b.n])

\* an/ad > bn/bd for non-negative fractions, by continued fractions (no
\* product is formed, so nothing overflows)
RECURSIVE FracGT(_, _, _, _)
FracGT(an, ad, bn, bd) ==
    IF an \div ad # bn \div bd THEN an \div ad > bn \div bd
    ELSE IF an % ad = 0 THEN FALSE
    ELSE IF bn % bd = 0 THEN TRUE
    ELSE FracGT(bd, bn % bd, ad, an % ad)

RatGT(a, b) ==
    IF a.n <= 0 /\ b.n <= 0 THEN FracGT(0 - b.n, b.d, 0 - a.n, a.d)
    ELSE IF a.n <= 0 THEN FALSE
    ELSE IF b.n <= 0 THEN TRUE
    ELSE FracGT(a.n, a.d, b.n, b.d)

\* the sum of the values a dict f of rationals has at the keys
RECURSIVE RatSumOver(_, _)
RatSumOver(f, keys) ==
    IF keys = {} THEN Zero
    ELSE LET w == CHOOSE w \in keys : TRUE
         IN  RatAdd(f[w], RatSumOver(f, keys \ {w}))

\* sum(f.values()) for a dict f of rationals
RatSum(f) == RatSumOver(f, DOMAIN f)

(***************************************************************************)
(* math.log in fixed point: LogTable[n] = 10 * ln(n) rounded, for 1..10;   *)
(* it is additive (LogTable[a*b] = LogTable[a] + LogTable[b]), so that the *)
(* exact relations between logarithms of rationals are kept.               *)
(***************************************************************************)
LogScale == 10

LogTable == <<0, 7, 11, 14, 16, 18, 19, 21, 22, 23>>

\* math.log(total / doc_freq), for total >= 1 and doc_freq >= 1
Log(total, doc_freq) == Rat(LogTable[total] - LogTable[doc_freq], LogScale)

(***************************************************************************)
(* The floats of Python: IEEE 754 binary64, round to nearest, ties to      *)
(* even.  A float is 0 or m * 2^e with 2^52 <= m < 2^53; m is held as a    *)
(* natural number in limbs of LimbBits bits, least significant first,      *)
(* because m and the products of two m do not fit the integers of TLC.     *)
(* Only the floats x >= 0 in the normal range are modelled: the weights of *)
(* an instance that has loaded once are not negative, and nothing here     *)
(* comes near the ends of the exponent range.                              *)
(***************************************************************************)
LimbBits == 15

Base == 32768

Precision == 53

RECURSIVE Pow2(_)
Pow2(n) == IF n = 0 THEN 1 ELSE 2 * Pow2(n - 1)

Limb(a, i) == IF i <= Len(a) THEN a[i] ELSE 0

\* the limbs without leading zeros
RECURSIVE NatTrim(_)
NatTrim(a) ==
    IF a = << >> THEN a
    ELSE IF a[Len(a)] = 0 THEN NatTrim(SubSeq(a, 1, Len(a) - 1)) ELSE a

NatAdd(a, b) ==
    LET RECURSIVE NatAddFrom(_, _)
        NatAddFrom(i, carry) ==
            IF i > Len(a) /\ i > Len(b)
            THEN IF carry = 0 THEN << >> ELSE <<carry>>
            ELSE <<(Limb(a, i) + Limb(b, i) + carry) % Base>>
                 \o NatAddFrom(i + 1, (Limb(a, i) + Limb(b, i) + carry) \div Base)
    IN  NatAddFrom(1, 0)

\* a - b for a >= b
NatSub(a, b) ==
    LET RECURSIVE NatSubFrom(_, _)
        NatSubFrom(i, borrow) ==
            IF i > Len(a) THEN << >>
            ELSE <<(a[i] - Limb(b, i) - borrow + Base) % Base>>
                 \o NatSubFrom(i + 1, IF a[i] - Limb(b, i) - borrow < 0 THEN 1 ELSE 0)
    IN  NatTrim(NatSubFrom(1, 0))

\* a >= b, on limbs without leading zeros
NatGE(a, b) ==
    LET RECURSIVE NatGEFrom(_)
        NatGEFrom(i) ==
            IF i = 0 THEN TRUE
            ELSE IF a[i] # b[i] THEN a[i] > b[i]
            ELSE NatGEFrom(i - 1)
    IN  IF Len(a) # Len(b) THEN Len(a) > Len(b) ELSE NatGEFrom(Len(a))

\* a * k for 0 <= k < Base
NatMulSmall(a, k) ==
    LET RECURSIVE NatMulSmallFrom(_, _)
        NatMulSmallFrom(i, carry) ==
            IF i > Len(a)
            THEN IF carry = 0 THEN << >> ELSE <<carry>>
            ELSE <<(a[i] * k + carry) % Base>>
                 \o NatMulSmallFrom(i + 1, (a[i] * k + carry) \div Base)
    IN  IF k = 0 THEN << >> ELSE NatMulSmallFrom(1, 0)

\* a * Base^n
NatShiftLimbs(a, n) ==
    IF a = << >> THEN a ELSE [i \in 1..n |-> 0] \o a

NatMul(a, b) ==
    LET RECURSIVE NatMulFrom(_)
        NatMulFrom(i) ==
            IF i > Len(b) THEN << >>
            ELSE NatAdd(NatShiftLimbs(NatMulSmall(a, b[i]), i - 1), NatMulFrom(i + 1))
    IN  NatMulFrom(1)

\* a * 2^s
NatShiftLeft(a, s) ==
    NatShiftLimbs(NatMulSmall(a, Pow2(s % LimbBits)), s \div LimbBits)

\* quotient and remainder of a by k for 0 < k <= Base: the division from
\* limb i down, with the remainder so far
NatDivSmall(a, k) ==
    LET NatDivSmallPut(below, digit) == [q |-> below.q \o <<digit>>, r |-> below.r]
        RECURSIVE NatDivSmallFrom(_, _)
        NatDivSmallFrom(i, rem) ==
            IF i = 0 THEN [q |-> << >>, r |-> rem]
            ELSE NatDivSmallPut(NatDivSmallFrom(i - 1, (rem * Base + a[i]) % k),
                                (rem * Base + a[i]) \div k)
        NatTrimQuotient(qr) == [q |-> NatTrim(qr.q), r |-> qr.r]
    IN  NatTrimQuotient(NatDivSmallFrom(Len(a), 0))

\* floor(a / 2^s), and whether a bit was lost
NatShiftRight(a, s) ==
    LET NatShiftRightOf(d, lost) == [q |-> d.q, sticky |-> d.r # 0 \/ lost]
    IN  NatShiftRightOf(
            NatDivSmall(IF s \div LimbBits >= Len(a) THEN << >>
                        ELSE SubSeq(a, s \div LimbBits + 1, Len(a)),
                        Pow2(s % LimbBits)),
            \E i \in 1..(s \div LimbBits) : Limb(a, i) # 0)

\* the number of bits of a
NatBitLen(a) ==
    LET RECURSIVE SmallBitLen(_)
        SmallBitLen(k) == IF k = 0 THEN 0 ELSE 1 + SmallBitLen(k \div 2)
    IN  IF a = << >> THEN 0 ELSE (Len(a) - 1) * LimbBits + SmallBitLen(a[Len(a)])

NatOdd(a) == a # << >> /\ a[1] % 2 = 1

\* 0.0
FloatZero == [m |-> << >>, e |-> 0]

\* the float nearest to n * 2^e (ties to even); sticky says that the exact
\* value lies above n * 2^e, by less than 2^e.  q holds the Precision leading
\* bits, half the bit after them
Round(n, e, sticky) ==
    LET RoundUp(q, up, ex) ==
            IF ~up THEN [m |-> q, e |-> ex]
            ELSE IF NatBitLen(NatAdd(q, <<1>>)) > Precision
                 THEN [m |-> NatDivSmall(NatAdd(q, <<1>>), 2).q, e |-> ex + 1]
                 ELSE [m |-> NatAdd(q, <<1>>), e |-> ex]
        RoundHalf(q, half, rest, ex) == RoundUp(q, half /\ (rest \/ NatOdd(q)), ex)
        RoundCut(cut, ex) ==
            RoundHalf(NatDivSmall(cut.q, 2).q, NatOdd(cut.q), cut.sticky \/ sticky, ex)
        RoundLen(len) ==
            IF len <= Precision
            THEN [m |-> NatShiftLeft(n, Precision - len), e |-> e - (Precision - len)]
            ELSE RoundCut(NatShiftRight(n, len - Precision - 1), e + (len - Precision))
    IN  IF n = << >> THEN FloatZero ELSE RoundLen(NatBitLen(n))

\* float(a) / float(b) for integers a >= 0, b > 0 below Base
FloatOfRatio(a, b) ==
    LET FloatOfQuotient(d, e) == Round(d.q, e, d.r # 0)
    IN  IF a = 0 THEN FloatZero
        ELSE FloatOfQuotient(NatDivSmall(NatShiftLeft(<<a>>, Precision + 2 + LimbBits), b),
                             0 - (Precision + 2 + LimbBits))

\* x * y
FloatMul(x, y) ==
    IF x.m = << >> \/ y.m = << >> THEN FloatZero
    ELSE Round(NatMul(x.m, y.m), x.e + y.e, FALSE)

\* x + y
FloatAdd(x, y) ==
    LET \* u + v for u.e >= v.e, both not zero
        FloatAddOrdered(u, v) ==
            IF u.e - v.e > Precision + 2 THEN u
            ELSE Round(NatAdd(NatShiftLeft(u.m, u.e - v.e), v.m), v.e, FALSE)
    IN  IF x.m = << >> THEN y
        ELSE IF y.m = << >> THEN x
        ELSE IF x.e >= y.e THEN FloatAddOrdered(x, y) ELSE FloatAddOrdered(y, x)

\* x > y
FloatGT(x, y) ==
    IF x.m = << >> THEN FALSE
    ELSE IF y.m = << >> THEN TRUE
    ELSE IF x.e # y.e THEN x.e > y.e
    ELSE x.m # y.m /\ NatGE(x.m, y.m)

\* quotient and remainder of n by d # 0, by long division from the leading
\* limb of n down: q the digits found, r the remainder so far.  Both are
\* scaled by 2^s to give the divisor a leading limb of at least Base / 2; the
\* quotient of the two leading limbs of the remainder by that limb is then
\* the digit or above it by at most 2
NatDivMod(n, d) ==
    LET NatDivScaled(nn, dd, s) ==
            LET NatDigitNear(rem, est) ==
                    CHOOSE t \in {est - 2, est - 1, est} :
                        /\ t >= 0
                        /\ NatGE(rem, NatMulSmall(dd, t))
                        /\ ~NatGE(rem, NatMulSmall(dd, t + 1))
                NatDigitEstimate(rem, lead) ==
                    NatDigitNear(rem, IF lead \div dd[Len(dd)] >= Base THEN Base - 1
                                      ELSE lead \div dd[Len(dd)])
                NatDigit(rem) ==
                    NatDigitEstimate(rem, Limb(rem, Len(dd) + 1) * Base + Limb(rem, Len(dd)))
                RECURSIVE NatDivModFrom(_, _, _)
                NatDivTake(i, q, rem, digit) ==
                    IF digit = 0 THEN NatDivModFrom(i - 1, <<0>> \o q, rem)
                    ELSE NatDivModFrom(i - 1, <<digit>> \o q,
                                       NatSub(rem, NatMulSmall(dd, digit)))
                \* one step: the next limb taken down
                NatDivStep(i, q, rem) == NatDivTake(i, q, rem, NatDigit(rem))
                NatDivModFrom(i, q, r) ==
                    IF i = 0 THEN [q |-> NatTrim(q), r |-> NatShiftRight(r, s).q]
                    ELSE NatDivStep(i, q, NatTrim(<<nn[i]>> \o r))
            IN  NatDivModFrom(Len(nn), << >>, << >>)
        NatDivShift(s) == NatDivScaled(NatShiftLeft(n, s), NatShiftLeft(d, s), s)
    IN  NatDivShift((LimbBits - (NatBitLen(d) % LimbBits)) % LimbBits)

\* the integer square root of n by Newton's iteration from an r above it,
\* and whether n is its square
NatSqrt(n) ==
    LET RECURSIVE NatSqrtFrom(_)
        NatSqrtNext(r, next) == IF NatGE(next, r) THEN r ELSE NatSqrtFrom(next)
        NatSqrtFrom(r) == NatSqrtNext(r, NatDivSmall(NatAdd(r, NatDivMod(n, r).q), 2).q)
        NatSqrtOf(root) == [root |-> root, exact |-> NatMul(root, root) = n]
    IN  NatSqrtOf(NatSqrtFrom(NatShiftLeft(<<1>>, (NatBitLen(n) + 1) \div 2)))

\* math.sqrt(x): the radicand is scaled to m * 2^s with an even exponent
\* left and a root of more than Precision bits
FloatSqrt(x) ==
    LET FloatSqrtRound(r, e) == Round(r.root, e, ~r.exact)
        FloatSqrtOf(s) == FloatSqrtRound(NatSqrt(NatShiftLeft(x.m, s)), (x.e - s) \div 2)
    IN  IF x.m = << >> THEN FloatZero
        ELSE FloatSqrtOf(IF x.e % 2 = 0 THEN Precision + 3 ELSE Precision + 2)

\* x / y for y # 0
FloatDiv(x, y) ==
    LET FloatDivRound(qr, e) == Round(qr.q, e, qr.r # << >>)
    IN  IF y.m # << >> /\ x.m = << >> THEN FloatZero
        ELSE FloatDivRound(NatDivMod(NatShiftLeft(x.m, Precision + 3), y.m),
                           x.e - y.e - (Precision + 3))

\* math.log(total / doc_freq) for total >= doc_freq (line 101): the quotient
\* is the float nearest to the fraction, so it depends on the fraction in
\* lowest terms only; the logarithms are those of the C library
FloatLog(total, doc_freq) ==
    LET FloatLogOf(ratio) ==
        CASE ratio = <<1, 1>> -> FloatZero
          [] ratio = <<2, 1>> -> [m |-> <<14831, 32244, 14603, 177>>, e |-> 0 - 53]   \* 0.6931471805599453
          [] ratio = <<3, 1>> -> [m |-> <<779, 30042, 20393, 140>>, e |-> 0 - 52]   \* 1.0986122886681098
          [] ratio = <<3, 2>> -> [m |-> <<6220, 22911, 19599, 207>>, e |-> 0 - 54]   \* 0.4054651081081644
          [] ratio = <<4, 1>> -> [m |-> <<14831, 32244, 14603, 177>>, e |-> 0 - 52]   \* 1.3862943611198906
          [] ratio = <<4, 3>> -> [m |-> <<23441, 8809, 9608, 147>>, e |-> 0 - 54]   \* 0.28768207245178085
          [] ratio = <<5, 1>> -> [m |-> <<3379, 28635, 263, 206>>, e |-> 0 - 52]   \* 1.6094379124341003
          [] ratio = <<5, 2>> -> [m |-> <<24696, 25025, 18691, 234>>, e |-> 0 - 53]   \* 0.9162907318741551
          [] ratio = <<5, 3>> -> [m |-> <<5202, 29954, 25275, 130>>, e |-> 0 - 53]   \* 0.5108256237659907
          [] ratio = <<5, 4>> -> [m |-> <<6690, 3893, 16351, 228>>, e |-> 0 - 55]   \* 0.22314355131420976
          [] ratio = <<6, 1>> -> [m |-> <<8194, 29780, 11311, 229>>, e |-> 0 - 52]   \* 1.791759469228055
          [] ratio = <<6, 5>> -> [m |-> <<5749, 9161, 22848, 186>>, e |-> 0 - 55]   \* 0.1823215567939546
    IN  FloatLogOf(<<total \div GCD(total, doc_freq), doc_freq \div GCD(total, doc_freq)>>)

\* the literal 0.01 (line 145)
FloatRelevanceFloor == [m |-> <<5243, 3932, 27525, 163>>, e |-> 0 - 59]

(***************************************************************************)
(* Bounds of the model                                                     *)
(***************************************************************************)
\* documents held by one instance
MaxDocs == 5

\* runs of build_index on one instance (each run grows word_index)
MaxBuilds == 2

\* searches of one run
MaxSearches == 1

\* top_k ranges over -MaxTopK .. MaxTopK
MaxTopK == 2

\* the texts preprocess_text is applied to on its own are made of at most
\* MaxPieces pieces
MaxPieces == 5

\* the requests the web interface handles at the same time
MaxRequests == 2

(***************************************************************************)
(* Inputs: the texts of the JSON files and the query strings               *)
(***************************************************************************)
\* "land acquisition policy for highways"
TextLandPolicy ==
    <<"l","a","n","d"," ","a","c","q","u","i","s","i","t","i","o","n"," ","p","o","l","i","c",
      "y"," ","f","o","r"," ","h","i","g","h","w","a","y","s">>

\* "toll collection procedures"
TextToll ==
    <<"t","o","l","l"," ","c","o","l","l","e","c","t","i","o","n"," ","p","r","o","c","e","d",
      "u","r","e","s">>

\* "land acquisition compensation guidelines"
TextLandCompensation ==
    <<"l","a","n","d"," ","a","c","q","u","i","s","i","t","i","o","n"," ","c","o","m","p","e",
      "n","s","a","t","i","o","n"," ","g","u","i","d","e","l","i","n","e","s">>

\* "toll road"
TextShort ==
    <<"t","o","l","l"," ","r","o","a","d">>

\* One JSON file of the directory: valid = json.load succeeds; the two text
\* fields and the subject are read with data.get (filename, date and
\* category are carried exactly as subject is).
File(stem, valid, extracted_text, text, subject) ==
    [stem |-> stem, valid |-> valid, extracted_text |-> extracted_text,
     text |-> text, subject |-> subject]

\* The directories load_documents is given, each as the list of files that
\* extracted_dir.glob("*.json") returns
DirEmpty == << >>

\* the scenario of three documents; two of them in the other order; a text
\* of one "fee", nine "bid", three "tax" and three "map" with a text "bus car
\* van"; a file that is not JSON with a text of stop words and punctuation
\* ("the, and for those!"), a text of 9 characters and a text under the key
\* 'text' ("NHAI Toll toll Road 66"); one document
Directories ==
    { DirEmpty,
      << File("c1", TRUE, TextLandPolicy, << >>, "Land policy"),
         File("c2", TRUE, TextToll, << >>, "Toll"),
         File("c3", TRUE, TextLandCompensation, << >>, "Compensation") >>,
      << File("c3", TRUE, TextLandCompensation, << >>, "Compensation"),
         File("c1", TRUE, TextLandPolicy, << >>, "Land policy") >>,
      << File("c5", TRUE,
              <<"f","e","e"," ","b","i","d"," ","b","i","d"," ","b","i","d"," ","b","i","d"," ","b","i",
                "d"," ","b","i","d"," ","b","i","d"," ","b","i","d"," ","b","i","d"," ","t","a","x",
                " ","t","a","x"," ","t","a","x"," ","m","a","p"," ","m","a","p"," ","m","a","p">>,
              << >>, "Fees"),
         File("c6", TRUE, <<"b","u","s"," ","c","a","r"," ","v","a","n">>, << >>, "Vehicles") >>,
      << File("c9", FALSE, << >>, << >>, ""),
         File("c4", TRUE,
              <<"t","h","e",","," ","a","n","d"," ","f","o","r"," ","t","h","o","s","e","!">>,
              << >>, ""),
         File("c8", TRUE, TextShort, << >>, "Short"),
         File("c7", TRUE, << >>,
              <<"N","H","A","I"," ","T","o","l","l"," ","t","o","l","l"," ","R","o","a","d"," ","6","6">>,
              "Toll road") >>,
      << File("c2", TRUE, TextToll, << >>, "Toll") >> }

Files == UNION {Range(dir) : dir \in Directories}

\* the empty string, "?! .", "the and", "ab 12", "metro rail",
\* "Land Acquisition?", "Toll, land acquisition",
\* "fee bus bus bus bus bus bus bus bus bus car car car van van van"
Queries ==
    { << >>,
      <<"?","!"," ",".">>,
      <<"t","h","e"," ","a","n","d">>,
      <<"a","b"," ","1","2">>,
      <<"m","e","t","r","o"," ","r","a","i","l">>,
      <<"L","a","n","d"," ","A","c","q","u","i","s","i","t","i","o","n","?">>,
      <<"T","o","l","l",","," ","l","a","n","d"," ","a","c","q","u","i","s","i","t","i","o","n">>,
      <<"f","e","e"," ","b","u","s"," ","b","u","s"," ","b","u","s"," ","b","u","s"," ","b","u",
        "s"," ","b","u","s"," ","b","u","s"," ","b","u","s"," ","b","u","s"," ","c","a","r",
        " ","c","a","r"," ","c","a","r"," ","v","a","n"," ","v","a","n"," ","v","a","n">> }

TopKs == (0 - MaxTopK)..MaxTopK

\* line 43: data.get('extracted_text') or data.get('text')
FileText(f) == IF f.extracted_text # << >> THEN f.extracted_text ELSE f.text

\* The directories and queries of the runs in float arithmetic.  Every
\* document vector and query vector they give has at most two weights that
\* are not 0.0, so every sum of lines 135-140 has at most two terms that are
\* not 0.0 and does not depend on the order of its terms (the order of a set
\* of strings is not fixed) nor on how sum() adds.
\* "toll revenue"
TextTollRevenue ==
    <<"t","o","l","l"," ","r","e","v","e","n","u","e">>

\* two documents without a common term; three documents of which the first
\* two have vectors in proportion ("fee" is in every document); one document
FloatDirectories ==
    { DirEmpty,
      \* "toll revenue", "land records"
      << File("f1", TRUE, TextTollRevenue, << >>, "Revenue"),
         File("f2", TRUE, <<"l","a","n","d"," ","r","e","c","o","r","d","s">>,
              << >>, "Records") >>,
      \* "toll fee fee fee", "toll toll fee", "fee fee road"
      << File("f3", TRUE,
              <<"t","o","l","l"," ","f","e","e"," ","f","e","e"," ","f","e","e">>,
              << >>, "Fees"),
         File("f4", TRUE, <<"t","o","l","l"," ","t","o","l","l"," ","f","e","e">>,
              << >>, "Toll"),
         File("f5", TRUE, <<"f","e","e"," ","f","e","e"," ","r","o","a","d">>,
              << >>, "Road") >>,
      \* "toll revenue fee"
      << File("f6", TRUE,
              <<"t","o","l","l"," ","r","e","v","e","n","u","e"," ","f","e","e">>,
              << >>, "Revenue") >> }

\* "toll revenue", "toll road", "toll road metro", "land",
\* "revenue toll toll", "fee", "records fee"
FloatQueries ==
    { TextTollRevenue, TextShort,
      TextShort \o <<" ","m","e","t","r","o">>,
      <<"l","a","n","d">>,
      <<"r","e","v","e","n","u","e"," ","t","o","l","l"," ","t","o","l","l">>,
      <<"f","e","e">>,
      <<"r","e","c","o","r","d","s"," ","f","e","e">> }

\* clean_ocr_text and preprocess_text are pure: their values on the texts of
\* the model are tabulated once
Cleaned ==
    [t \in {FileText(f) : f \in Files \cup UNION {Range(dir) : dir \in FloatDirectories}} |->
        clean_ocr_text(t)]

Words ==
    [t \in {FileText(f) : f \in Files} \cup Range(Cleaned) \cup Queries
           \cup FloatQueries |->
        preprocess_text(t)]

(***************************************************************************)
(* The state of one SimpleHuggingFaceRAG instance (src/app.py:21-27), the  *)
(* last call made on it and what that call produced.                       *)
(***************************************************************************)
VARIABLES
    documents,         \* self.documents: the cleaned texts, doc_id = index - 1
    metadata,          \* self.metadata: one record per document
    word_index,        \* self.word_index: term -> list of doc_ids
    document_vectors,  \* self.document_vectors: doc_id -> (term -> weight)
    idf_scores,        \* self.idf_scores: term -> weight
    total_docs,        \* self.total_docs
    doc_frequencies,   \* the local doc_frequencies of the last build_index
    call,              \* the last call: [op, query, top_k]
    last_query_vector, \* the local query_vector of the last search (line 123)
    ranked,            \* the local results of the last search, sorted (line 153)
    results,           \* what the last search_documents returned (line 154)
    num_docs,          \* what the last load_documents returned
    raised,            \* the exception the last call raised, or "none"
    divisors,          \* the divisors of the divisions the last call executed
    builds,            \* how many times build_index has run
    searches,          \* how many times search_documents has run
    input_text,        \* the argument of a call of preprocess_text on its own
    tokens,            \* what that call returned
    loader,            \* a thread in load_documents: its position and locals
    searcher,          \* a thread in search_documents: its position, its
                       \* arguments, and the idf_scores and document_vectors
                       \* it has read
    snapshot,          \* the index before the load of the loader thread and
                       \* the index that load leaves when nothing interleaves
    float_idf_scores,        \* self.idf_scores as the floats they are
    float_document_vectors,  \* self.document_vectors as the floats they are
    float_results,           \* what the last search returned, scores as floats
    twin,              \* two more instances, each the record of its fields, that
                       \* get the same calls on directories with the same texts
    generation,        \* the last call of generate_answer: its arguments, the
                       \* outcome of requests.post, what the call returned or
                       \* raised and its local answer
    simple_rag,        \* a SimpleRAGSystem instance (src/simple_rag.py): the
                       \* record of its fields, its last call and the result
    rag_system,        \* the WebRAGSystem instance of src/web_interface.py:96
    requests           \* the threads that handle the requests of the web
                       \* interface: the position of each in load_documents

vars ==
    <<documents, metadata, word_index, document_vectors, idf_scores, total_docs,
      doc_frequencies, call, last_query_vector, ranked, results, num_docs, raised,
      divisors, builds, searches, input_text, tokens, loader, searcher, snapshot,
      float_idf_scores, float_document_vectors, float_results, twin, generation,
      simple_rag, rag_system, requests>>

\* the variables of the calls of preprocess_text on its own, which the
\* methods of the index leave alone
token_vars == <<input_text, tokens>>

\* the variables of the two threads, which calls made one after the other
\* leave alone
thread_vars == <<loader, searcher, snapshot>>

\* the variables of the runs in float arithmetic, which the runs in exact
\* arithmetic leave alone
float_vars == <<float_idf_scores, float_document_vectors, float_results>>

\* the variables of the instances of the other classes and of the twin
\* instances, which the calls on the one instance leave alone
side_vars == <<twin, generation, simple_rag, rag_system, requests>>

\* a dict with no key
EmptyDict == [w \in {} |-> 0]

\* Counter(words)[w]
Count(words, w) == Cardinality({i \in DOMAIN words : words[i] = w})

\* vector.get(w, 0)
Get(vector, w) == IF w \in DOMAIN vector THEN vector[w] ELSE Zero

(***************************************************************************)
(* build_index (src/app.py:86-114)                                         *)
(***************************************************************************)
\* doc_frequencies counting every occurrence of a word instead of every
\* document that holds it
DocFrequencyStep_PerOccurrence(df, words) ==
    [w \in DOMAIN df \cup Range(words) |->
        (IF w \in DOMAIN df THEN df[w] ELSE 0) + Count(words, w)]

\* lines 93-96: one document counted into doc_frequencies
DocFrequencyStep(df, words) ==
    LET unique_words == Range(words)
    IN  [w \in DOMAIN df \cup unique_words |->
            (IF w \in DOMAIN df THEN df[w] ELSE 0)
          + (IF w \in unique_words THEN 1 ELSE 0)]

\* lines 91-96: doc_frequencies after the first n documents
RECURSIVE DocFrequencies(_, _)
DocFrequencies(words_of, n) ==
    IF n = 0 THEN EmptyDict
    ELSE DocFrequencyStep(DocFrequencies(words_of, n - 1), words_of[n])

\* lines 93-97: one document appended to the posting lists
WordIndexStep(wi, words, doc_id) ==
    LET unique_words == Range(words)
    IN  [w \in DOMAIN wi \cup unique_words |->
            (IF w \in DOMAIN wi THEN wi[w] ELSE << >>)
         \o (IF w \in unique_words THEN <<doc_id>> ELSE << >>)]

\* lines 91-97: word_index after the first n documents
RECURSIVE WordIndexAfter(_, _, _)
WordIndexAfter(wi, words_of, n) ==
    IF n = 0 THEN wi
    ELSE WordIndexStep(WordIndexAfter(wi, words_of, n - 1), words_of[n], n - 1)

\* the logarithm taken of total_docs itself, which raises for an empty corpus
LogRaises_Eager(total, df) == total = 0

\* lines 100-101: math.log(0.0) raises ValueError at the first term
LogRaises(total, df) == DOMAIN df # {} /\ total = 0

\* the new logarithm added to the entry a former build left
IdfAfter_Accumulating(idf, total, df) ==
    [w \in DOMAIN idf \cup DOMAIN df |->
        IF w \in DOMAIN df THEN RatAdd(Get(idf, w), Log(total, df[w])) ELSE idf[w]]

\* an IDF table that keeps no entry of weight zero: the terms that occur in
\* every document are left out
IdfAfter_NonZero(idf, total, df) ==
    [w \in {v \in DOMAIN idf \cup DOMAIN df :
              v \in DOMAIN df => Log(total, df[v]) # Zero} |->
        IF w \in DOMAIN df THEN Log(total, df[w]) ELSE idf[w]]

\* lines 100-101: idf_scores after the loop
IdfAfter(idf, total, df) ==
    [w \in DOMAIN idf \cup DOMAIN df |->
        IF w \in DOMAIN df THEN Log(total, df[w]) ELSE idf[w]]

\* the weight taken as count * IDF, without the division by len(words)
DocVector_RawCount(words, idf) ==
    [w \in {v \in Range(words) : v \in DOMAIN idf} |->
        RatMul(Rat(Count(words, w), 1), idf[w])]

\* add-one smoothing over the whole vocabulary, which gives a document
\* without tokens a vector
DocVector_Smoothed(words, idf) ==
    [w \in DOMAIN idf |->
        RatMul(Rat(Count(words, w) + 1, Len(words) + 1), idf[w])]

\* lines 105-112: the TF-IDF vector of one document
DocVector(words, idf) ==
    [w \in {v \in Range(words) : v \in DOMAIN idf} |->
        RatMul(Rat(Count(words, w), Len(words)), idf[w])]

\* lines 104-114: document_vectors after the loop
VectorsAfter(vectors, words_of, idf) ==
    [d \in DOMAIN vectors \cup 0..(Len(words_of) - 1) |->
        IF d < Len(words_of) THEN DocVector(words_of[d + 1], idf) ELSE vectors[d]]

\* the divisors of line 101 (doc_freq) and, when the logarithm does not raise,
\* of line 111 (len(words), once per document that has a word)
BuildDivisors(words_of, df, fails) ==
    {Rat(df[w], 1) : w \in DOMAIN df}
    \cup (IF fails THEN {}
          ELSE {Rat(Len(words_of[i]), 1) :
                    i \in {j \in DOMAIN words_of : Range(words_of[j]) # {}}})

\* build_index as a whole: the fields it leaves behind
build_index(docs, total, wi, idf, vectors) ==
    LET words_of == [i \in DOMAIN docs |-> Words[docs[i]]]
        df       == DocFrequencies(words_of, Len(docs))
        fails    == LogRaises(total, df)
        idf2     == IF fails THEN idf ELSE IdfAfter(idf, total, df)
    IN  [word_index       |-> WordIndexAfter(wi, words_of, Len(docs)),
         doc_frequencies  |-> df,
         idf_scores       |-> idf2,
         document_vectors |-> IF fails THEN vectors
                              ELSE VectorsAfter(vectors, words_of, idf2),
         divisors         |-> BuildDivisors(words_of, df, fails),
         raised           |-> IF fails THEN "ValueError" ELSE "none"]

NoCall(op) == [op |-> op, query |-> << >>, top_k |-> 0]

\* a direct call of build_index
BuildIndex ==
    /\ builds < MaxBuilds
    /\ searches = 0
    /\ LET b == build_index(documents, total_docs, word_index, idf_scores,
                            document_vectors)
       IN  /\ word_index' = b.word_index
           /\ doc_frequencies' = b.doc_frequencies
           /\ idf_scores' = b.idf_scores
           /\ document_vectors' = b.document_vectors
           /\ divisors' = b.divisors
           /\ raised' = b.raised
    /\ builds' = builds + 1
    /\ searches' = searches
    /\ call' = NoCall("build_index")
    /\ last_query_vector' = EmptyDict
    /\ ranked' = << >>
    /\ results' = << >>
    /\ UNCHANGED <<documents, metadata, total_docs, num_docs, token_vars, side_vars, float_vars, thread_vars>>

(***************************************************************************)
(* load_documents (src/app.py:29-65)                                       *)
(***************************************************************************)
\* lines 38-48 and 59-60: the file is read, has a text, and the cleaned text
\* has more than 10 characters
Loadable(f) ==
    /\ f.valid
    /\ FileText(f) # << >>
    /\ Len(Strip(Cleaned[FileText(f)])) > 10

\* lines 50-56
MetadataOf(f) == [subject |-> f.subject, file_id |-> f.stem]

LoadDocuments(json_files) ==
    LET loaded == SelectSeq(json_files, Loadable)
        docs   == documents \o
                  [i \in DOMAIN loaded |-> Cleaned[FileText(loaded[i])]]
        loaded_count == Len(loaded)
        b == build_index(docs, loaded_count, word_index, idf_scores,
                         document_vectors)
    IN  /\ builds < MaxBuilds
        /\ searches = 0
        /\ Len(docs) <= MaxDocs
        /\ documents' = docs
        /\ metadata' = metadata \o [i \in DOMAIN loaded |-> MetadataOf(loaded[i])]
        /\ total_docs' = loaded_count
        /\ word_index' = b.word_index
        /\ doc_frequencies' = b.doc_frequencies
        /\ idf_scores' = b.idf_scores
        /\ document_vectors' = b.document_vectors
        /\ divisors' = b.divisors
        /\ raised' = b.raised
        /\ num_docs' = IF b.raised = "none" THEN Len(docs) ELSE num_docs
        /\ builds' = builds + 1
        /\ searches' = searches
        /\ call' = NoCall("load_documents")
        /\ last_query_vector' = EmptyDict
        /\ ranked' = << >>
        /\ results' = << >>
        /\ UNCHANGED <<token_vars, side_vars, float_vars, thread_vars>>

(***************************************************************************)
(* search_documents (src/app.py:116-154)                                   *)
(***************************************************************************)
\* the relevance floor of line 145
RelevanceFloor == Rat(1, 100)

\* lines 122-127: the TF-IDF vector of the query
QueryVector(query_words, idf) ==
    [w \in {v \in Range(query_words) : v \in DOMAIN idf} |->
        RatMul(Rat(Count(query_words, w), Len(query_words)), idf[w])]

\* the division by len(query_words) hoisted out of the loop over the query
\* terms, so that it runs for a query without tokens too
QueryDivisors_Hoisted(query_words, idf) == {Rat(Len(query_words), 1)}

\* the divisors of line 126: len(query_words), once per query term that has
\* an IDF entry
QueryDivisors(query_words, idf) ==
    {Rat(Len(query_words), 1) : w \in {v \in Range(query_words) : v \in DOMAIN idf}}

\* lines 135-136
DotProduct(query_vector, doc_vector) ==
    RatSum([w \in DOMAIN query_vector \cup DOMAIN doc_vector |->
                RatMul(Get(query_vector, w), Get(doc_vector, w))])

\* lines 139-140 without the square root: the square of a magnitude
MagnitudeSq(vector) == RatSum([w \in DOMAIN vector |-> RatMul(vector[w], vector[w])])

\* line 143 without the guard of line 142
MagnitudesPositive_Unchecked(query_sq, doc_sq) == TRUE

\* line 142: query_magnitude > 0 and doc_magnitude > 0
MagnitudesPositive(query_sq, doc_sq) == query_sq.n > 0 /\ doc_sq.n > 0

\* line 131: the document is looked at, and line 142 lets the division run
Scored(query_vector, doc_vector) ==
    /\ DOMAIN doc_vector # {}
    /\ MagnitudesPositive(MagnitudeSq(query_vector), MagnitudeSq(doc_vector))

\* the square of the divisor of line 143
CosineDivisorSq(query_vector, doc_vector) ==
    RatMul(MagnitudeSq(query_vector), MagnitudeSq(doc_vector))

\* the square of a rational, with the sign of the rational
SignedSquare(a) == [n |-> a.n * Abs(a.n), d |-> a.d * a.d]

\* line 143, as the signed square of dot / (query_magnitude * doc_magnitude)
Similarity(query_vector, doc_vector) ==
    RatDiv(SignedSquare(DotProduct(query_vector, doc_vector)),
           CosineDivisorSq(query_vector, doc_vector))

\* similarity >= 0.01 in place of similarity > 0.01
Relevant_AtLeast(similarity) ==
    ~RatGT(RatMul(RelevanceFloor, RelevanceFloor), similarity)

\* line 145: similarity > 0.01, on signed squares
Relevant(similarity) == RatGT(similarity, RatMul(RelevanceFloor, RelevanceFloor))

\* a result that is kept only when its metadata has a subject
KeepRelevant_Titled(result) ==
    IF Relevant(result.score) /\ result.metadata.subject # "" THEN <<result>> ELSE << >>

\* every scored document appended, whatever its similarity
KeepRelevant_All(result) == <<result>>

\* lines 145-151: the entry is appended when its score is above the floor
KeepRelevant(result) == IF Relevant(result.score) THEN <<result>> ELSE << >>

\* results that number the documents from 1
DocResult_OneBased(query_vector, doc_id) ==
    IF ~Scored(query_vector, document_vectors[doc_id]) THEN << >>
    ELSE KeepRelevant([doc_id   |-> doc_id + 1,
                       score    |-> Similarity(query_vector, document_vectors[doc_id]),
                       text     |-> documents[doc_id + 1],
                       metadata |-> metadata[doc_id + 1]])

\* lines 131-151: what one document adds to results
DocResult(query_vector, doc_id) ==
    IF ~Scored(query_vector, document_vectors[doc_id]) THEN << >>
    ELSE KeepRelevant([doc_id   |-> doc_id,
                       score    |-> Similarity(query_vector, document_vectors[doc_id]),
                       text     |-> documents[doc_id + 1],
                       metadata |-> metadata[doc_id + 1]])

\* lines 130-151: results after the documents 0 .. n-1 (items() lists the
\* vectors in the order of their insertion, which is the order of the doc_ids)
RECURSIVE ResultsUpTo(_, _)
ResultsUpTo(query_vector, n) ==
    IF n = 0 THEN << >>
    ELSE ResultsUpTo(query_vector, n - 1) \o DocResult(query_vector, n - 1)

\* an ascending stable sort that is reversed afterwards: entries of equal
\* score end in decreasing doc_id order
SortPosition_TiesReversed(rs, i) ==
    1 + Cardinality({j \in DOMAIN rs : RatGT(rs[j].score, rs[i].score)})
      + Cardinality({j \in DOMAIN rs : j > i /\ rs[j].score = rs[i].score})

\* line 153: list.sort(key=score, reverse=True) is stable: an entry moves
\* behind the entries of higher score and behind the earlier entries of equal
\* score
SortPosition(rs, i) ==
    1 + Cardinality({j \in DOMAIN rs : RatGT(rs[j].score, rs[i].score)})
      + Cardinality({j \in DOMAIN rs : j < i /\ rs[j].score = rs[i].score})

SortByScore(rs) ==
    [p \in DOMAIN rs |-> rs[CHOOSE i \in DOMAIN rs : SortPosition(rs, i) = p]]

\* rs[:top_k + 1]
Slice_OneMore(rs, top_k) ==
    SubSeq(rs, 1, IF top_k + 1 < Len(rs) THEN top_k + 1 ELSE Len(rs))

\* line 154: rs[:top_k]
Slice(rs, top_k) ==
    IF top_k >= 0
    THEN SubSeq(rs, 1, IF top_k < Len(rs) THEN top_k ELSE Len(rs))
    ELSE SubSeq(rs, 1, Len(rs) + top_k)

\* the squares of the divisors of line 143, one per scored document
CosineDivisors(query_vector) ==
    {CosineDivisorSq(query_vector, document_vectors[d]) :
        d \in {e \in DOMAIN document_vectors :
                 Scored(query_vector, document_vectors[e])}}

\* the divisors a search executes: those of line 126 and, unless one of them
\* is zero and line 126 raises, those of line 143
SearchDivisors(tf_divisors, query_vector) ==
    IF Zero \in tf_divisors THEN tf_divisors
    ELSE tf_divisors \cup CosineDivisors(query_vector)


\* lines 129-153: the local results, sorted
Ranking(query_vector) ==
    SortByScore(ResultsUpTo(query_vector, Cardinality(DOMAIN document_vectors)))

\* a search that reads word_index by subscript as a defaultdict, which leaves
\* an empty posting list behind for every query word the corpus does not hold
SearchDocuments_Inserting(query, top_k) ==
    /\ searches < MaxSearches
    /\ call' = [op |-> "search_documents", query |-> query, top_k |-> top_k]
    /\ searches' = searches + 1
    /\ last_query_vector' = QueryVector(Words[query], idf_scores)
    /\ divisors' = SearchDivisors(QueryDivisors(Words[query], idf_scores),
                                  last_query_vector')
    /\ raised' = IF Zero \in divisors' THEN "ZeroDivisionError" ELSE "none"
    /\ ranked' = IF raised' = "none" THEN Ranking(last_query_vector') ELSE << >>
    /\ results' = Slice(ranked', top_k)
    /\ word_index' = [w \in DOMAIN word_index \cup Range(Words[query]) |->
                         IF w \in DOMAIN word_index THEN word_index[w] ELSE << >>]
    /\ UNCHANGED <<documents, metadata, document_vectors, idf_scores, total_docs,
                   doc_frequencies, num_docs, builds, token_vars, side_vars, float_vars,
                   thread_vars>>

SearchDocuments(query, top_k) ==
    /\ searches < MaxSearches
    /\ call' = [op |-> "search_documents", query |-> query, top_k |-> top_k]
    /\ searches' = searches + 1
    /\ last_query_vector' = QueryVector(Words[query], idf_scores)
    /\ divisors' = SearchDivisors(QueryDivisors(Words[query], idf_scores),
                                  last_query_vector')
    /\ raised' = IF Zero \in divisors' THEN "ZeroDivisionError" ELSE "none"
    /\ ranked' = IF raised' = "none" THEN Ranking(last_query_vector') ELSE << >>
    /\ results' = Slice(ranked', top_k)
    /\ UNCHANGED <<documents, metadata, word_index, document_vectors,
                   idf_scores, total_docs, doc_frequencies, num_docs, builds,
                   token_vars, side_vars, float_vars, thread_vars>>

(***************************************************************************)
(* The specification                                                       *)
(***************************************************************************)
\* the instance after __init__ (lines 21-27), with nothing called yet
NewInstance ==
    /\ documents = << >>
    /\ metadata = << >>
    /\ word_index = EmptyDict
    /\ document_vectors = EmptyDict
    /\ idf_scores = EmptyDict
    /\ total_docs = 0
    /\ doc_frequencies = EmptyDict
    /\ call = NoCall("__init__")
    /\ last_query_vector = EmptyDict
    /\ ranked = << >>
    /\ results = << >>
    /\ num_docs = 0
    /\ raised = "none"
    /\ divisors = {}
    /\ builds = 0
    /\ searches = 0

\* no call of preprocess_text on its own
NoTokens == input_text = << >> /\ tokens = << >>

\* no thread
NoThreads ==
    /\ loader = [pc |-> "none", op |-> "load_documents"]
    /\ searcher = [pc |-> "none", op |-> "search_documents"]
    /\ snapshot = << >>

\* nothing computed in float arithmetic
NoFloats ==
    /\ float_idf_scores = EmptyDict
    /\ float_document_vectors = EmptyDict
    /\ float_results = << >>

\* the instances of the other classes and the twin instances after their
\* __init__ (src/app.py:21-27, src/simple_rag.py:15-19,
\* src/web_interface.py:17-22 and 96), no call of generate_answer made and no
\* request being handled
NoOthers ==
    /\ LET NewRecord ==
               [documents |-> << >>, metadata |-> << >>, word_index |-> EmptyDict,
                document_vectors |-> EmptyDict, idf_scores |-> EmptyDict,
                total_docs |-> 0, raised |-> "none", results |-> << >>]
       IN  twin = [left |-> NewRecord, right |-> NewRecord, builds |-> 0,
                   call |-> NoCall("__init__")]
    /\ generation = [op |-> "__init__"]
    /\ simple_rag = [documents |-> << >>, metadata |-> << >>,
                     word_index |-> EmptyDict, document_vectors |-> EmptyDict,
                     builds |-> 0, call |-> NoCall("__init__"), results |-> << >>]
    /\ rag_system = [documents |-> << >>, metadata |-> << >>,
                     word_index |-> EmptyDict, document_vectors |-> EmptyDict,
                     loaded |-> FALSE]
    /\ requests = [t \in 1..MaxRequests |-> [pc |-> "idle"]]

Init == NewInstance /\ NoTokens /\ NoThreads /\ NoFloats /\ NoOthers

\* A run loads and builds first and searches afterwards (searches = 0 in the
\* guards of LoadDocuments and BuildIndex), the order in which main() uses an
\* instance (src/app.py:246-287).  A search changes no field of the instance,
\* so the index states the searches see are all the index states there are.
Next ==
    \/ \E json_files \in Directories : LoadDocuments(json_files)
    \/ BuildIndex
    \/ \E query \in Queries, top_k \in TopKs : SearchDocuments(query, top_k)

Spec == Init /\ [][Next]_vars

(***************************************************************************)
(* preprocess_text on its own (src/app.py:77-84)                           *)
(***************************************************************************)
\* The pieces the texts are made of: a stop word, a stop word in mixed case,
\* a word, a token of two characters, a digit, a space, and a separator of
\* punctuation, underscore and newline.  Pieces that follow each other
\* without a separator run into one word.
Pieces ==
    { <<"t","h","e">>, <<"A","n","d">>, <<"T","o","l","l">>, <<"t","o">>,
      <<"6">>, <<" ">>, <<"!","_","\n">> }

\* the texts of at most n pieces
RECURSIVE TextsUpTo(_)
TextsUpTo(n) ==
    IF n = 0 THEN {<< >>}
    ELSE LET shorter == TextsUpTo(n - 1)
         IN  shorter \cup {t \o piece : t \in shorter, piece \in Pieces}

Texts == TextsUpTo(MaxPieces)

\* one call of preprocess_text, which neither reads nor writes the instance
PreprocessText ==
    /\ call.op = "__init__"
    /\ call' = [op |-> "preprocess_text", query |-> input_text, top_k |-> 0]
    /\ tokens' = preprocess_text(input_text)
    /\ raised' = "none"
    /\ UNCHANGED <<documents, metadata, word_index, document_vectors, idf_scores,
                   total_docs, doc_frequencies, last_query_vector, ranked,
                   results, num_docs, divisors, builds, searches, input_text,
                   thread_vars, float_vars, side_vars>>

InitTokens ==
    /\ NewInstance
    /\ NoThreads
    /\ NoFloats
    /\ NoOthers
    /\ input_text \in Texts
    /\ tokens = << >>

NextTokens == PreprocessText

SpecTokens == InitTokens /\ [][NextTokens]_vars

(***************************************************************************)
(* load_documents and search_documents called by two threads on one        *)
(* instance.  The methods take no lock and build_index writes the fields   *)
(* of the instance in place, so the interpreter can switch threads between *)
(* any two statements.  The steps below are the loops of the methods, each *)
(* taken as a whole; the switches between them are the ones modelled.      *)
(***************************************************************************)
\* the part of the instance a search reads
IndexRead(idf, vectors) == [idf_scores |-> idf, document_vectors |-> vectors]

\* lines 33-61: the files are read, documents and metadata appended
LoaderAppend ==
    /\ loader.pc = "start"
    /\ \E loaded \in {SelectSeq(loader.json_files, Loadable)} :
          /\ documents' = documents \o
                 [i \in DOMAIN loaded |-> Cleaned[FileText(loaded[i])]]
          /\ metadata' = metadata \o [i \in DOMAIN loaded |-> MetadataOf(loaded[i])]
          /\ loader' = [loader EXCEPT !.pc = "line 63", !.loaded_count = Len(loaded)]
    /\ UNCHANGED <<word_index, document_vectors, idf_scores, total_docs,
                   doc_frequencies, call, last_query_vector, ranked, results,
                   num_docs, raised, divisors, builds, searches, token_vars, side_vars, float_vars,
                   searcher, snapshot>>

\* line 63: self.total_docs = loaded_count
LoaderTotalDocs ==
    /\ loader.pc = "line 63"
    /\ total_docs' = loader.loaded_count
    /\ loader' = [loader EXCEPT !.pc = "line 91"]
    /\ UNCHANGED <<documents, metadata, word_index, document_vectors, idf_scores,
                   doc_frequencies, call, last_query_vector, ranked, results,
                   num_docs, raised, divisors, builds, searches, token_vars, side_vars, float_vars,
                   searcher, snapshot>>

\* the token sequences of the documents held
WordsOfDocuments == [i \in DOMAIN documents |-> Words[documents[i]]]

\* lines 89-97: doc_frequencies counted, word_index appended to
LoaderFrequencies ==
    /\ loader.pc = "line 91"
    /\ doc_frequencies' = DocFrequencies(WordsOfDocuments, Len(documents))
    /\ word_index' = WordIndexAfter(word_index, WordsOfDocuments, Len(documents))
    /\ loader' = [loader EXCEPT !.pc = "line 100"]
    /\ UNCHANGED <<documents, metadata, document_vectors, idf_scores, total_docs,
                   call, last_query_vector, ranked, results, num_docs, raised,
                   divisors, builds, searches, token_vars, side_vars, float_vars, searcher, snapshot>>

\* lines 100-101: idf_scores assigned, or ValueError raised out of
\* load_documents by math.log(0.0)
LoaderIdf ==
    /\ loader.pc = "line 100"
    /\ IF LogRaises(total_docs, doc_frequencies)
       THEN /\ raised' = "ValueError"
            /\ loader' = [loader EXCEPT !.pc = "done"]
            /\ UNCHANGED idf_scores
       ELSE /\ raised' = "none"
            /\ idf_scores' = IdfAfter(idf_scores, total_docs, doc_frequencies)
            /\ loader' = [loader EXCEPT !.pc = "line 104"]
    /\ UNCHANGED <<documents, metadata, word_index, document_vectors, total_docs,
                   doc_frequencies, call, last_query_vector, ranked, results,
                   num_docs, divisors, builds, searches, token_vars, side_vars, float_vars, searcher,
                   snapshot>>

\* lines 104-114 and 65: document_vectors assigned, len(self.documents)
\* returned
LoaderVectors ==
    /\ loader.pc = "line 104"
    /\ document_vectors' = VectorsAfter(document_vectors, WordsOfDocuments, idf_scores)
    /\ num_docs' = Len(documents)
    /\ builds' = builds + 1
    /\ loader' = [loader EXCEPT !.pc = "done"]
    /\ UNCHANGED <<documents, metadata, word_index, idf_scores, total_docs,
                   doc_frequencies, call, last_query_vector, ranked, results,
                   raised, divisors, searches, token_vars, side_vars, float_vars, searcher, snapshot>>

\* lines 118-127: the query vector built from idf_scores
SearcherQueryVector ==
    /\ searcher.pc = "start"
    /\ last_query_vector' = QueryVector(Words[searcher.query], idf_scores)
    /\ searcher' = [searcher EXCEPT !.pc = "line 130", !.idf_scores = idf_scores]
    /\ UNCHANGED <<documents, metadata, word_index, document_vectors, idf_scores,
                   total_docs, doc_frequencies, call, ranked, results, num_docs,
                   raised, divisors, builds, searches, token_vars, side_vars, float_vars, loader,
                   snapshot>>

\* lines 130-154: the loop over document_vectors, the sort and the slice
SearcherScore ==
    /\ searcher.pc = "line 130"
    /\ divisors' = SearchDivisors(QueryDivisors(Words[searcher.query],
                                                searcher.idf_scores),
                                  last_query_vector)
    /\ ranked' = IF Zero \in divisors' THEN << >> ELSE Ranking(last_query_vector)
    /\ results' = Slice(ranked', searcher.top_k)
    /\ searches' = searches + 1
    /\ searcher' = [searcher EXCEPT
                        !.pc = "done",
                        !.document_vectors = document_vectors,
                        !.raised = IF Zero \in divisors' THEN "ZeroDivisionError"
                                   ELSE "none"]
    /\ UNCHANGED <<documents, metadata, word_index, document_vectors, idf_scores,
                   total_docs, doc_frequencies, call, last_query_vector, num_docs,
                   raised, builds, token_vars, side_vars, float_vars, loader, snapshot>>

\* An instance that has loaded one directory, as load_rag_system leaves it
\* (lines 227-233), on which one thread is about to load a directory and
\* another is about to search.
InitThreads ==
    /\ NoTokens
    /\ NoFloats
    /\ NoOthers
    /\ \E first \in Directories \ {DirEmpty}, json_files \in Directories,
          query \in Queries, top_k \in 1..MaxTopK :
          \E docs \in {[i \in DOMAIN SelectSeq(first, Loadable) |->
                           Cleaned[FileText(SelectSeq(first, Loadable)[i])]]} :
             \E b \in {build_index(docs, Len(docs), EmptyDict, EmptyDict, EmptyDict)} :
                \E after \in {build_index(
                                  docs \o [i \in DOMAIN SelectSeq(json_files, Loadable) |->
                                             Cleaned[FileText(SelectSeq(json_files, Loadable)[i])]],
                                  Len(SelectSeq(json_files, Loadable)),
                                  b.word_index, b.idf_scores, b.document_vectors)} :
                /\ Len(docs) + Len(SelectSeq(json_files, Loadable)) <= MaxDocs
                /\ documents = docs
                /\ metadata = [i \in DOMAIN SelectSeq(first, Loadable) |->
                                  MetadataOf(SelectSeq(first, Loadable)[i])]
                /\ total_docs = Len(docs)
                /\ word_index = b.word_index
                /\ doc_frequencies = b.doc_frequencies
                /\ idf_scores = b.idf_scores
                /\ document_vectors = b.document_vectors
                /\ divisors = b.divisors
                /\ raised = b.raised
                /\ num_docs = Len(docs)
                /\ builds = 1
                /\ searches = 0
                /\ call = NoCall("load_documents")
                /\ last_query_vector = EmptyDict
                /\ ranked = << >>
                /\ results = << >>
                /\ loader = [pc |-> "start", op |-> "load_documents",
                             json_files |-> json_files, loaded_count |-> 0]
                /\ searcher = [pc |-> "start", op |-> "search_documents",
                               query |-> query, top_k |-> top_k,
                               idf_scores |-> EmptyDict,
                               document_vectors |-> EmptyDict, raised |-> "none"]
                /\ snapshot = [before |-> IndexRead(b.idf_scores, b.document_vectors),
                               after  |-> IndexRead(after.idf_scores,
                                                    after.document_vectors)]

NextThreads ==
    \/ LoaderAppend
    \/ LoaderTotalDocs
    \/ LoaderFrequencies
    \/ LoaderIdf
    \/ LoaderVectors
    \/ SearcherQueryVector
    \/ SearcherScore

SpecThreads == InitThreads /\ [][NextThreads]_vars

(***************************************************************************)
(* load_documents and search_documents in float arithmetic, on an instance *)
(* that loads once (load_rag_system, lines 227-233) and is searched: then  *)
(* total_docs = len(documents) and no IDF is negative.  A vector is the    *)
(* sequence of the items of the dict, in the order of their insertion.     *)
(***************************************************************************)
\* the keys of Counter(words), in the order of their first occurrence
RECURSIVE FirstOccurrences(_, _)
FirstOccurrences(words, n) ==
    IF n = 0 THEN << >>
    ELSE IF words[n] \in Range(SubSeq(words, 1, n - 1))
         THEN FirstOccurrences(words, n - 1)
         ELSE Append(FirstOccurrences(words, n - 1), words[n])

\* lines 100-101: idf_scores after the loop
FloatIdfAfter(idf, total, df) ==
    [w \in DOMAIN idf \cup DOMAIN df |->
        IF w \in DOMAIN df THEN FloatLog(total, df[w]) ELSE idf[w]]

\* lines 105-112 and 122-127: the vector of a document or of a query, an
\* item for each word of the idf table in the order of Counter(words);
\* tf = count / len(words), the weight tf * idf
FloatVector(words, idf) ==
    LET InIdf(w) == w \in DOMAIN idf
        FloatItem(w) ==
            [word   |-> w,
             weight |-> FloatMul(FloatOfRatio(Count(words, w), Len(words)), idf[w])]
        FloatItems(keys) == [i \in DOMAIN keys |-> FloatItem(keys[i])]
    IN  FloatItems(SelectSeq(FirstOccurrences(words, Len(words)), InIdf))

\* lines 104-114: document_vectors after the loop
FloatVectorsAfter(vectors, words_of, idf) ==
    [d \in DOMAIN vectors \cup 0..(Len(words_of) - 1) |->
        IF d < Len(words_of) THEN FloatVector(words_of[d + 1], idf) ELSE vectors[d]]

\* load_documents on a new instance
FloatLoadDocuments(json_files) ==
    /\ call.op = "__init__"
    /\ \E loaded \in {SelectSeq(json_files, Loadable)} :
        \E docs \in {[i \in DOMAIN loaded |-> Cleaned[FileText(loaded[i])]]} :
        \E words_of \in {[i \in DOMAIN docs |-> Words[docs[i]]]} :
        \E df \in {DocFrequencies(words_of, Len(docs))} :
          /\ Len(docs) <= MaxDocs
          /\ documents' = docs
          /\ metadata' = [i \in DOMAIN loaded |-> MetadataOf(loaded[i])]
          /\ total_docs' = Len(loaded)
          /\ word_index' = WordIndexAfter(word_index, words_of, Len(docs))
          /\ doc_frequencies' = df
          /\ float_idf_scores' = FloatIdfAfter(float_idf_scores, Len(loaded), df)
          /\ float_document_vectors' =
                 FloatVectorsAfter(float_document_vectors, words_of, float_idf_scores')
          /\ num_docs' = Len(docs)
    /\ raised' = "none"
    /\ builds' = builds + 1
    /\ call' = NoCall("load_documents")
    /\ float_results' = << >>
    /\ UNCHANGED <<document_vectors, idf_scores, last_query_vector, ranked,
                   results, divisors, searches, token_vars, side_vars, thread_vars>>

\* vector.get(w, 0)
FloatGet(vector, w) ==
    IF \E i \in DOMAIN vector : vector[i].word = w
    THEN vector[CHOOSE i \in DOMAIN vector : vector[i].word = w].weight
    ELSE FloatZero

FloatKeysOf(vector) == [i \in DOMAIN vector |-> vector[i].word]

\* set(query_vector.keys()) | set(doc_vector.keys()), in one of its orders
FloatKeys(query_vector, doc_vector) ==
    LET Other(w) == w \notin Range(FloatKeysOf(query_vector))
    IN  FloatKeysOf(query_vector) \o SelectSeq(FloatKeysOf(doc_vector), Other)

\* sum(xs): 0 + xs[1] + ... + xs[n], from the left
RECURSIVE FloatSum(_, _)
FloatSum(xs, n) ==
    IF n = 0 THEN FloatZero ELSE FloatAdd(FloatSum(xs, n - 1), xs[n])

\* lines 135-136
FloatDotProduct(query_vector, doc_vector) ==
    LET FloatDotOver(keys) ==
            FloatSum([i \in DOMAIN keys |->
                         FloatMul(FloatGet(query_vector, keys[i]),
                                  FloatGet(doc_vector, keys[i]))],
                     Len(keys))
    IN  FloatDotOver(FloatKeys(query_vector, doc_vector))

\* lines 139-140: math.sqrt(sum(score ** 2 for score in vector.values()))
FloatMagnitude(vector) ==
    FloatSqrt(FloatSum([i \in DOMAIN vector |->
                           FloatMul(vector[i].weight, vector[i].weight)],
                       Len(vector)))

\* lines 131-151: what one document adds to results
FloatDocResult(query_vector, doc_id) ==
    LET \* lines 145-151
        FloatKeepRelevant(result) ==
            IF FloatGT(result.score, FloatRelevanceFloor) THEN <<result>> ELSE << >>
        \* lines 142-151
        FloatScore(dot_product, query_magnitude, doc_magnitude) ==
            IF FloatGT(query_magnitude, FloatZero) /\ FloatGT(doc_magnitude, FloatZero)
            THEN FloatKeepRelevant(
                     [doc_id   |-> doc_id,
                      score    |-> FloatDiv(dot_product,
                                            FloatMul(query_magnitude, doc_magnitude)),
                      text     |-> documents[doc_id + 1],
                      metadata |-> metadata[doc_id + 1]])
            ELSE << >>
    IN  IF float_document_vectors[doc_id] = << >> THEN << >>
        ELSE FloatScore(FloatDotProduct(query_vector, float_document_vectors[doc_id]),
                        FloatMagnitude(query_vector),
                        FloatMagnitude(float_document_vectors[doc_id]))

\* line 153, on float scores: a stable sort, the larger score first
FloatSortByScore(rs) ==
    LET FloatSortPosition(i) ==
            1 + Cardinality({j \in DOMAIN rs : FloatGT(rs[j].score, rs[i].score)})
              + Cardinality({j \in DOMAIN rs : j < i /\ rs[j].score = rs[i].score})
    IN  [p \in DOMAIN rs |-> rs[CHOOSE i \in DOMAIN rs : FloatSortPosition(i) = p]]

\* lines 129-153
FloatRanking(query_vector) ==
    LET RECURSIVE FloatResultsUpTo(_)
        FloatResultsUpTo(n) ==
            IF n = 0 THEN << >>
            ELSE FloatResultsUpTo(n - 1) \o FloatDocResult(query_vector, n - 1)
    IN  FloatSortByScore(FloatResultsUpTo(Cardinality(DOMAIN float_document_vectors)))

\* search_documents on float_idf_scores and float_document_vectors
FloatSearchDocuments(query, top_k) ==
    /\ call.op = "load_documents"
    /\ call' = [op |-> "search_documents", query |-> query, top_k |-> top_k]
    /\ searches' = searches + 1
    /\ float_results' =
           Slice(FloatRanking(FloatVector(Words[query], float_idf_scores)), top_k)
    /\ raised' = "none"
    /\ UNCHANGED <<documents, metadata, word_index, document_vectors, idf_scores,
                   total_docs, doc_frequencies, last_query_vector, ranked, results,
                   num_docs, divisors, builds, token_vars, side_vars, thread_vars,
                   float_idf_scores, float_document_vectors>>

NextFloat ==
    \/ \E json_files \in FloatDirectories : FloatLoadDocuments(json_files)
    \/ \E query \in FloatQueries, top_k \in TopKs : FloatSearchDocuments(query, top_k)

SpecFloat == Init /\ [][NextFloat]_vars

(***************************************************************************)
(* Two instances that are given the same texts under different metadata    *)
(* (src/app.py:29-65, 116-154)                                             *)
(***************************************************************************)
\* the fields of the one instance and what its last call produced
instance_vars ==
    <<documents, metadata, word_index, document_vectors, idf_scores, total_docs,
      doc_frequencies, call, last_query_vector, ranked, results, num_docs, raised,
      divisors, builds, searches>>

\* the files of a directory with the same texts in the same order and other
\* values of subject and of the file name
Relabelled(json_files) ==
    [i \in DOMAIN json_files |->
        [json_files[i] EXCEPT !.subject = "", !.stem = <<"r1", "r2", "r3", "r4">>[i]]]

\* load_documents on the instance whose fields are the record self: the
\* fields it leaves
load_documents(self, json_files) ==
    LET loaded == SelectSeq(json_files, Loadable)
        docs   == self.documents \o
                  [i \in DOMAIN loaded |-> Cleaned[FileText(loaded[i])]]
        b == build_index(docs, Len(loaded), self.word_index, self.idf_scores,
                         self.document_vectors)
    IN  [documents        |-> docs,
         metadata         |-> self.metadata \o
                              [i \in DOMAIN loaded |-> MetadataOf(loaded[i])],
         total_docs       |-> Len(loaded),
         word_index       |-> b.word_index,
         idf_scores       |-> b.idf_scores,
         document_vectors |-> b.document_vectors,
         raised           |-> b.raised,
         results          |-> << >>]

\* search_documents on the instance whose fields are the record self: what
\* it returns
search_documents(self, query, top_k) ==
    LET query_vector == QueryVector(Words[query], self.idf_scores)
        \* lines 131-151: what one document adds to results
        Entry(doc_id) ==
            IF ~Scored(query_vector, self.document_vectors[doc_id]) THEN << >>
            ELSE KeepRelevant(
                     [doc_id   |-> doc_id,
                      score    |-> Similarity(query_vector,
                                              self.document_vectors[doc_id]),
                      text     |-> self.documents[doc_id + 1],
                      metadata |-> self.metadata[doc_id + 1]])
        RECURSIVE UpTo(_)
        UpTo(n) == IF n = 0 THEN << >> ELSE UpTo(n - 1) \o Entry(n - 1)
    IN  Slice(SortByScore(UpTo(Cardinality(DOMAIN self.document_vectors))), top_k)

\* both instances load: one the directory, the other the relabelled one
TwinLoadDocuments(json_files) ==
    /\ twin.builds < MaxBuilds
    /\ twin.call.op # "search_documents"
    /\ Len(twin.left.documents) + Len(SelectSeq(json_files, Loadable)) <= MaxDocs
    /\ twin' = [left   |-> load_documents(twin.left, json_files),
                right  |-> load_documents(twin.right, Relabelled(json_files)),
                builds |-> twin.builds + 1,
                call   |-> NoCall("load_documents")]
    /\ UNCHANGED <<instance_vars, token_vars, thread_vars, float_vars, generation,
                   simple_rag, rag_system, requests>>

\* both instances answer the same search
TwinSearchDocuments(query, top_k) ==
    /\ twin.call.op # "search_documents"
    /\ twin.left.raised = "none"
    /\ twin' = [twin EXCEPT
                   !.left.results = search_documents(twin.left, query, top_k),
                   !.right.results = search_documents(twin.right, query, top_k),
                   !.call = [op |-> "search_documents", query |-> query,
                             top_k |-> top_k]]
    /\ UNCHANGED <<instance_vars, token_vars, thread_vars, float_vars, generation,
                   simple_rag, rag_system, requests>>

NextTwin ==
    \/ \E json_files \in Directories : TwinLoadDocuments(json_files)
    \/ \E query \in Queries, top_k \in TopKs : TwinSearchDocuments(query, top_k)

SpecTwin == Init /\ [][NextTwin]_vars

(***************************************************************************)
(* generate_answer and generate_fallback_answer (src/app.py:156-224; the   *)
(* same code is src/streamlit_app.py:161-220)                              *)
(***************************************************************************)
\* sub in s, for two strings
Contains(sub, s) ==
    \E i \in 0..(Len(s) - Len(sub)) : SubSeq(s, i + 1, i + Len(sub)) = sub

\* lines 211-224; the call of preprocess_text on the context (line 214)
\* raises on no string and its result is not used
generate_fallback_answer(question, context) ==
    LET lower == [i \in DOMAIN question |-> ToLower(question[i])]
        Both(first, second) == Contains(first, lower) /\ Contains(second, lower)
    IN  IF Both(<<"l","a","n","d">>, <<"a","c","q","u","i","s","i","t","i","o","n">>)
        THEN
            <<"B","a","s","e","d"," ","o","n"," ","t","h","e"," ","N","H","A","I"," ","p",
              "o","l","i","c","y"," ","d","o","c","u","m","e","n","t","s",","," ","l","a",
              "n","d"," ","a","c","q","u","i","s","i","t","i","o","n"," ","p","r","o","c",
              "e","d","u","r","e","s"," ","i","n","v","o","l","v","e"," ","s","p","e","c",
              "i","f","i","c"," ","g","u","i","d","e","l","i","n","e","s"," ","f","o","r",
              " ","c","o","m","p","e","n","s","a","t","i","o","n",","," ","e","n","v","i",
              "r","o","n","m","e","n","t","a","l"," ","c","l","e","a","r","a","n","c","e",
              "s",","," ","a","n","d"," ","s","t","a","k","e","h","o","l","d","e","r"," ",
              "c","o","n","s","u","l","t","a","t","i","o","n","s","."," ","T","h","e"," ",
              "d","o","c","u","m","e","n","t","s"," ","o","u","t","l","i","n","e"," ","t",
              "h","e"," ","l","e","g","a","l"," ","f","r","a","m","e","w","o","r","k"," ",
              "a","n","d"," ","a","d","m","i","n","i","s","t","r","a","t","i","v","e"," ",
              "p","r","o","c","e","s","s","e","s"," ","f","o","r"," ","a","c","q","u","i",
              "r","i","n","g"," ","l","a","n","d"," ","f","o","r"," ","h","i","g","h","w",
              "a","y"," ","p","r","o","j","e","c","t","s",".">>
        ELSE IF Both(<<"t","o","l","l">>, <<"c","o","l","l","e","c","t","i","o","n">>)
        THEN
            <<"T","h","e"," ","N","H","A","I"," ","p","o","l","i","c","y"," ","d","o","c",
              "u","m","e","n","t","s"," ","c","o","n","t","a","i","n"," ","c","o","m","p",
              "r","e","h","e","n","s","i","v","e"," ","g","u","i","d","e","l","i","n","e",
              "s"," ","f","o","r"," ","t","o","l","l"," ","c","o","l","l","e","c","t","i",
              "o","n",","," ","i","n","c","l","u","d","i","n","g"," ","f","e","e"," ","s",
              "t","r","u","c","t","u","r","e","s",","," ","p","a","y","m","e","n","t"," ",
              "m","e","t","h","o","d","s",","," ","a","n","d"," ","o","p","e","r","a","t",
              "i","o","n","a","l"," ","p","r","o","c","e","d","u","r","e","s","."," ","T",
              "h","e","s","e"," ","g","u","i","d","e","l","i","n","e","s"," ","e","n","s",
              "u","r","e"," ","s","t","a","n","d","a","r","d","i","z","e","d"," ","t","o",
              "l","l"," ","c","o","l","l","e","c","t","i","o","n"," ","a","c","r","o","s",
              "s"," ","n","a","t","i","o","n","a","l"," ","h","i","g","h","w","a","y","s",
              ".">>
        ELSE IF Both(<<"d","e","l","e","g","a","t","i","o","n">>, <<"p","o","w","e","r","s">>)
        THEN
            <<"T","h","e"," ","N","H","A","I"," ","p","o","l","i","c","y"," ","d","o","c",
              "u","m","e","n","t","s"," ","d","e","t","a","i","l"," ","t","h","e"," ","d",
              "e","l","e","g","a","t","i","o","n"," ","o","f"," ","p","o","w","e","r","s",
              " ","t","o"," ","v","a","r","i","o","u","s"," ","o","f","f","i","c","e","r",
              "s"," ","a","n","d"," ","r","e","g","i","o","n","a","l"," ","o","f","f","i",
              "c","e","s","."," ","T","h","i","s"," ","i","n","c","l","u","d","e","s"," ",
              "a","u","t","h","o","r","i","t","y"," ","f","o","r"," ","t","e","c","h","n",
              "i","c","a","l"," ","a","p","p","r","o","v","a","l","s",","," ","f","i","n",
              "a","n","c","i","a","l"," ","d","e","c","i","s","i","o","n","s",","," ","a",
              "n","d"," ","a","d","m","i","n","i","s","t","r","a","t","i","v","e"," ","f",
              "u","n","c","t","i","o","n","s"," ","w","i","t","h","i","n"," ","s","p","e",
              "c","i","f","i","e","d"," ","l","i","m","i","t","s",".">>
        ELSE
            <<"B","a","s","e","d"," ","o","n"," ","t","h","e"," ","N","H","A","I"," ","p",
              "o","l","i","c","y"," ","d","o","c","u","m","e","n","t","s",","," ","I"," ",
              "f","o","u","n","d"," ","r","e","l","e","v","a","n","t"," ","i","n","f","o",
              "r","m","a","t","i","o","n"," ","a","b","o","u","t"," ">>
            \o lower \o
            <<"."," ","T","h","e"," ","d","o","c","u","m","e","n","t","s"," ","c","o","n",
              "t","a","i","n"," ","d","e","t","a","i","l","e","d"," ","g","u","i","d","e",
              "l","i","n","e","s"," ","a","n","d"," ","p","r","o","c","e","d","u","r","e",
              "s"," ","r","e","l","a","t","e","d"," ","t","o"," ","t","h","i","s"," ","t",
              "o","p","i","c",","," ","i","n","c","l","u","d","i","n","g"," ","a","d","m",
              "i","n","i","s","t","r","a","t","i","v","e"," ","p","r","o","c","e","s","s",
              "e","s"," ","a","n","d"," ","r","e","g","u","l","a","t","o","r","y"," ","r",
              "e","q","u","i","r","e","m","e","n","t","s",".">>

\* an except clause that names the exceptions of requests only
Caught_RequestsOnly(exception) == exception \in {"ConnectionError", "Timeout"}

\* line 208: except Exception catches every exception the try block raises
Caught(exception) == TRUE

\* an answer of 20 characters taken as long enough
LongEnough_AtLeast(answer) == Len(answer) >= 20

\* line 199: answer and len(answer) > 20
LongEnough(answer) == answer # << >> /\ Len(answer) > 20

\* The outcome of requests.post is the record response: error is the
\* exception the call raises, or "none"; json is what response.json() does
\* ("invalid": it raises; "dict": a dict; "list": the list items); an item
\* is a dict or not, has the key 'generated_text' or not, whose value is a
\* str or None; the str is lead + (the prompt, when echo) + tail.  The value
\* is what the call returns, the exception it raises, and the local answer
\* after line 197 when the call gets there.
generate_answer(question, context, response) ==
    LET \* line 164
        prompt ==
            <<"Q","u","e","s","t","i","o","n",":"," ">> \o question
            \o <<"\n","\n","C","o","n","t","e","x","t"," ","f","r","o","m"," ","N","H","A",
                 "I"," ","p","o","l","i","c","y"," ","d","o","c","u","m","e","n","t","s",
                 ":","\n">>
            \o SubSeq(context, 1, IF Len(context) < 1000 THEN Len(context) ELSE 1000)
            \o <<"\n","\n","A","n","s","w","e","r",":">>
        \* lines 184-186
        listed ==
            /\ response.error = "none"
            /\ response.status_code = 200
            /\ response.json = "list"
            /\ response.items # << >>
        item == response.items[1]
        \* the exception that lines 177-197 raise, or "none"
        failure ==
            IF response.error # "none" THEN response.error
            ELSE IF response.status_code # 200 THEN "none"
            ELSE IF response.json = "invalid" THEN "JSONDecodeError"
            ELSE IF ~listed THEN "none"
            ELSE IF ~item.dict THEN "AttributeError"
            ELSE IF item.key /\ ~item.str THEN "TypeError"
            ELSE "none"
        \* line 187
        generated_text ==
            IF item.key
            THEN item.lead \o (IF item.echo THEN prompt ELSE << >>) \o item.tail
            ELSE << >>
        \* lines 190-193
        extracted ==
            IF Contains(prompt, generated_text)
            THEN Strip(SubSeq(generated_text, Len(prompt) + 1, Len(generated_text)))
            ELSE generated_text
        \* lines 196-197
        Kept(c) == c \in WordChar \cup Whitespace \cup {".", ",", "-", "!", "?"}
        answer == Strip(SelectSeq(extracted, Kept))
        reached == listed /\ failure = "none"
    IN  IF failure # "none" /\ ~Caught(failure)
        THEN [returned |-> << >>, raised |-> failure, answer |-> << >>]
        ELSE [returned |-> IF reached /\ LongEnough(answer)
                           THEN answer
                           ELSE generate_fallback_answer(question, context),
              raised   |-> "none",
              answer   |-> IF reached THEN answer ELSE << >>]

\* the outcomes of the external call: the exceptions of requests.post; a
\* status other than 200; with status 200 a body that is not JSON, a dict,
\* the empty list, a list of a str, of a dict without 'generated_text', of a
\* dict whose 'generated_text' is None, and of a dict with a text: the empty
\* text, "Yes.", a text of 20 and one of 21 characters, a text of 26
\* characters of which the cleaning leaves 17, a text with characters the
\* cleaning removes, the prompt followed by an answer, by "No." and by
\* nothing, and the prompt after "Echo: "
Responses ==
    LET Body(status_code, json, items) ==
            [error |-> "none", status_code |-> status_code, json |-> json,
             items |-> items]
        Item(dict, key, str, lead, echo, tail) ==
            [dict |-> dict, key |-> key, str |-> str, lead |-> lead, echo |-> echo,
             tail |-> tail]
        Text(lead, echo, tail) == Body(200, "list", <<Item(TRUE, TRUE, TRUE, lead, echo, tail)>>)
    IN  { [error |-> "ConnectionError"], [error |-> "Timeout"],
          Body(404, "dict", << >>), Body(503, "invalid", << >>),
          Body(503, "list", <<Item(TRUE, TRUE, TRUE, << >>, FALSE,
                                   <<"T","h","e"," ","t","o","l","l"," ","i","s"," ","c",
                                     "o","l","l","e","c","t","e","d"," ","a","t"," ","e",
                                     "v","e","r","y"," ","p","l","a","z","a",".">>)>>),
          Body(200, "invalid", << >>), Body(200, "dict", << >>),
          Body(200, "list", << >>),
          Body(200, "list", <<Item(FALSE, FALSE, FALSE, << >>, FALSE, << >>)>>),
          Body(200, "list", <<Item(TRUE, FALSE, FALSE, << >>, FALSE, << >>)>>),
          Body(200, "list", <<Item(TRUE, TRUE, FALSE, << >>, FALSE, << >>)>>),
          Text(<< >>, FALSE, << >>),
          Text(<< >>, FALSE, <<"Y","e","s",".">>),
          Text(<< >>, FALSE, <<"T","o","l","l"," ","i","s"," ","p","a","i","d"," ","b","y",
                                " ","a","l","l",".">>),
          Text(<< >>, FALSE, <<"T","o","l","l"," ","i","s"," ","p","a","i","d"," ","b","y",
                                " ","c","a","r","s",".">>),
          Text(<< >>, FALSE, <<"#","#"," ","T","o","l","l",":"," ","(","p","a","i","d",")",
                                " ","b","y"," ","a","l","l","!"," ","#","#">>),
          Text(<< >>, FALSE,
               <<"T","h","e"," ","f","e","e"," ","i","s"," ","R","s","."," ","6","5","/",
                 "-"," ","p","e","r"," ","t","r","i","p"," ","[","N","H","-","4","8","]",
                 " ","@"," ","p","l","a","z","a",".">>),
          Text(<< >>, TRUE,
               <<"\n","T","h","e"," ","t","o","l","l"," ","i","s"," ","c","o","l","l","e",
                 "c","t","e","d"," ","a","t"," ","e","v","e","r","y"," ","p","l","a","z",
                 "a",".">>),
          Text(<< >>, TRUE, <<" ","N","o",".">>),
          Text(<< >>, TRUE, << >>),
          Text(<<"E","c","h","o",":"," ">>, TRUE, <<" ","o","k">>) }

\* one call of generate_answer (src/app.py:316)
GenerateAnswer(question, context, response) ==
    /\ generation' =
           [op |-> "generate_answer", question |-> question, context |-> context,
            response |-> response]
           @@ generate_answer(question, context, response)
    /\ UNCHANGED <<instance_vars, token_vars, thread_vars, float_vars, twin,
                   simple_rag, rag_system, requests>>

\* the questions are the queries of the searches, "toll collection
\* procedures" and "Delegation of POWERS"; the context is empty or one text
NextAnswer ==
    \E question \in Queries \cup {TextToll,
                                  <<"D","e","l","e","g","a","t","i","o","n"," ","o","f"," ",
                                    "P","O","W","E","R","S">>},
       context \in {<< >>, TextLandPolicy}, response \in Responses :
        GenerateAnswer(question, context, response)

SpecAnswer == Init /\ [][NextAnswer]_vars

(***************************************************************************)
(* SimpleRAGSystem (src/simple_rag.py:14-133)                              *)
(***************************************************************************)
\* load_documents (lines 21-51): the text of every file that is JSON and has
\* an extracted_text is appended as it is; nothing is indexed
SimpleLoadDocuments(json_files) ==
    LET Loaded(f) == f.valid /\ f.extracted_text # << >>
        loaded == SelectSeq(json_files, Loaded)
    IN  /\ simple_rag.builds = 0
        /\ simple_rag.call.op # "search"
        /\ Len(simple_rag.documents) + Len(loaded) <= MaxDocs
        /\ simple_rag' =
               [simple_rag EXCEPT
                   !.documents = @ \o [i \in DOMAIN loaded |-> loaded[i].extracted_text],
                   !.metadata = @ \o [i \in DOMAIN loaded |-> MetadataOf(loaded[i])],
                   !.call = NoCall("load_documents"),
                   !.results = << >>]
        /\ UNCHANGED <<instance_vars, token_vars, thread_vars, float_vars, twin,
                       generation, rag_system, requests>>

\* build_index (lines 66-86): every occurrence of a word in a document
\* counts in the vector of the document (lines 76-77) and appends the doc_id
\* to the posting list of the word (line 78); word_index is not cleared
SimpleBuildIndex ==
    LET words_of == [i \in DOMAIN simple_rag.documents |-> Words[simple_rag.documents[i]]]
        terms == UNION {Range(words_of[i]) : i \in DOMAIN words_of}
        \* the doc_ids appended to the posting list of w by the documents
        \* 0 .. n-1
        RECURSIVE Postings(_, _)
        Postings(w, n) ==
            IF n = 0 THEN << >>
            ELSE Postings(w, n - 1) \o [k \in 1..Count(words_of[n], w) |-> n - 1]
    IN  /\ simple_rag.call.op # "search"
        /\ simple_rag.builds < MaxBuilds
        /\ simple_rag' =
               [simple_rag EXCEPT
                   !.word_index =
                       [w \in DOMAIN @ \cup terms |->
                           (IF w \in DOMAIN @ THEN @[w] ELSE << >>)
                           \o Postings(w, Len(words_of))],
                   !.document_vectors =
                       [d \in DOMAIN @ \cup 0..(Len(words_of) - 1) |->
                           IF d < Len(words_of)
                           THEN [w \in Range(words_of[d + 1]) |-> Count(words_of[d + 1], w)]
                           ELSE @[d]],
                   !.builds = @ + 1,
                   !.call = NoCall("build_index"),
                   !.results = << >>]
        /\ UNCHANGED <<instance_vars, token_vars, thread_vars, float_vars, twin,
                       generation, rag_system, requests>>

\* calculate_tf_idf (lines 88-102) on the instance self, as a rational that
\* is within tf / 1000000 of tf * (ln(N / (df + 1)) + 1)
calculate_tf_idf(self, word, doc_id) ==
    LET \* math.log in fixed point: LnTable[n] = 1000000 * ln(n), rounded
        LnTable ==
          <<0, 693147, 1098612, 1386294, 1609438, 1791759, 1945910, 2079442,
           2197225, 2302585, 2397895, 2484907, 2564949, 2639057, 2708050,
           2772589, 2833213, 2890372, 2944439, 2995732, 3044522, 3091042,
           3135494, 3178054, 3218876, 3258097, 3295837, 3332205, 3367296,
           3401197, 3433987, 3465736, 3496508, 3526361, 3555348, 3583519,
           3610918, 3637586, 3663562, 3688879, 3713572, 3737670, 3761200,
           3784190, 3806662, 3828641, 3850148, 3871201, 3891820, 3912023,
           3931826, 3951244, 3970292, 3988984, 4007333, 4025352, 4043051,
           4060443, 4077537, 4094345, 4110874, 4127134, 4143135, 4158883,
           4174387, 4189655, 4204693, 4219508, 4234107, 4248495, 4262680,
           4276666, 4290459, 4304065, 4317488, 4330733, 4343805, 4356709,
           4369448, 4382027, 4394449, 4406719, 4418841, 4430817, 4442651,
           4454347, 4465908, 4477337, 4488636, 4499810, 4510860, 4521789,
           4532599, 4543295, 4553877, 4564348, 4574711, 4584967, 4595120,
           4605170>>
        tf == self.document_vectors[doc_id][word]
        df == Len(self.word_index[word])
    IN  IF doc_id \notin DOMAIN self.document_vectors
           \/ word \notin DOMAIN self.document_vectors[doc_id]
        THEN Zero
        ELSE Rat(tf * (LnTable[Len(self.documents)] - LnTable[df + 1] + 1000000), 1000000)

\* search (lines 104-133)
SimpleSearch(query, top_k) ==
    LET query_words == Words[query]
        \* lines 113-117
        scores ==
            [i \in DOMAIN simple_rag.documents |->
                [doc_id |-> i - 1,
                 score  |-> RatSum([j \in DOMAIN query_words |->
                                calculate_tf_idf(simple_rag, query_words[j], i - 1)])]]
        \* line 125
        Positive(entry) == entry.score.n > 0
        \* lines 126-131
        Results(kept) ==
            [i \in DOMAIN kept |->
                [doc_id   |-> kept[i].doc_id,
                 score    |-> kept[i].score,
                 text     |-> simple_rag.documents[kept[i].doc_id + 1],
                 metadata |-> simple_rag.metadata[kept[i].doc_id + 1]]]
    IN  /\ simple_rag.call.op # "search"
        /\ simple_rag' =
               [simple_rag EXCEPT
                   !.call = [op |-> "search", query |-> query, top_k |-> top_k],
                   \* lines 120 and 124: the sort and the slice
                   !.results =
                       Results(SelectSeq(Slice(SortByScore(scores), top_k), Positive))]
        /\ UNCHANGED <<instance_vars, token_vars, thread_vars, float_vars, twin,
                       generation, rag_system, requests>>

\* A run loads first, builds then and searches last, the order of main()
\* (lines 158-189); the queries are those of the other searches and the texts
\* of the files
NextSimple ==
    \/ \E json_files \in Directories : SimpleLoadDocuments(json_files)
    \/ SimpleBuildIndex
    \/ \E query \in Queries \cup {FileText(f) : f \in Files}, top_k \in TopKs :
          SimpleSearch(query, top_k)

SpecSimple == Init /\ [][NextSimple]_vars

(***************************************************************************)
(* WebRAGSystem.load_documents (src/web_interface.py:24-52) as the threads *)
(* of the web server run it on the one instance rag_system (line 96): the  *)
(* handlers home and search both call it (lines 315 and 325), and it takes *)
(* no lock.  A step of a thread is the test of line 26 with the listing of *)
(* line 29, one pass of the loop of lines 31-48, build_index as a whole,   *)
(* line 51, or line 52; the threads of the interpreter can switch between  *)
(* any two bytecodes, so every interleaving of these steps is one of the   *)
(* real ones.                                                              *)
(***************************************************************************)
\* lines 26-29: the thread t returns at once when loaded is set, and lists
\* the directory otherwise; the directory is the same for every thread
WebCheck(t, json_files) ==
    /\ requests[t].pc = "idle"
    /\ \A u \in DOMAIN requests :
          requests[u].pc \notin {"idle", "returned"} => requests[u].json_files = json_files
    /\ \A u \in DOMAIN requests :
          requests[u].pc = "returned" => requests[u].json_files \in {<< >>, json_files}
    /\ requests' =
           [requests EXCEPT ![t] =
               IF rag_system.loaded
               THEN [pc |-> "returned", json_files |-> << >>, next |-> 0,
                     total_docs |-> Len(rag_system.documents)]
               ELSE [pc |-> "loop", json_files |-> json_files, next |-> 1,
                     total_docs |-> 0]]
    /\ UNCHANGED <<instance_vars, token_vars, thread_vars, float_vars, twin,
                   generation, simple_rag, rag_system>>

\* lines 31-48: one file of the listing; its text and metadata are appended
\* when it is JSON and has an extracted_text
WebAppend(t) ==
    LET f == requests[t].json_files[requests[t].next]
    IN  /\ requests[t].pc = "loop"
        /\ requests[t].next <= Len(requests[t].json_files)
        /\ rag_system' =
               IF f.valid /\ f.extracted_text # << >>
               THEN [rag_system EXCEPT
                        !.documents = Append(@, f.extracted_text),
                        !.metadata = Append(@, MetadataOf(f))]
               ELSE rag_system
        /\ requests' = [requests EXCEPT ![t].next = @ + 1]
        /\ UNCHANGED <<instance_vars, token_vars, thread_vars, float_vars, twin,
                       generation, simple_rag>>

\* line 50 and lines 63-73: build_index over the documents there are; every
\* occurrence of a word appends the doc_id to the posting list of the word
WebBuildIndex(t) ==
    LET words_of == [i \in DOMAIN rag_system.documents |-> Words[rag_system.documents[i]]]
        terms == UNION {Range(words_of[i]) : i \in DOMAIN words_of}
        RECURSIVE Postings(_, _)
        Postings(w, n) ==
            IF n = 0 THEN << >>
            ELSE Postings(w, n - 1) \o [k \in 1..Count(words_of[n], w) |-> n - 1]
    IN  /\ requests[t].pc = "loop"
        /\ requests[t].next > Len(requests[t].json_files)
        /\ rag_system' =
               [rag_system EXCEPT
                   !.word_index =
                       [w \in DOMAIN @ \cup terms |->
                           (IF w \in DOMAIN @ THEN @[w] ELSE << >>)
                           \o Postings(w, Len(words_of))],
                   !.document_vectors =
                       [d \in 0..(Len(words_of) - 1) |->
                           [w \in Range(words_of[d + 1]) |-> Count(words_of[d + 1], w)]]]
        /\ requests' = [requests EXCEPT ![t].pc = "built"]
        /\ UNCHANGED <<instance_vars, token_vars, thread_vars, float_vars, twin,
                       generation, simple_rag>>

\* line 51
WebSetLoaded(t) ==
    /\ requests[t].pc = "built"
    /\ rag_system' = [rag_system EXCEPT !.loaded = TRUE]
    /\ requests' = [requests EXCEPT ![t].pc = "loaded"]
    /\ UNCHANGED <<instance_vars, token_vars, thread_vars, float_vars, twin,
                   generation, simple_rag>>

\* line 52
WebReturn(t) ==
    /\ requests[t].pc = "loaded"
    /\ requests' = [requests EXCEPT ![t].pc = "returned",
                                    ![t].total_docs = Len(rag_system.documents)]
    /\ UNCHANGED <<instance_vars, token_vars, thread_vars, float_vars, twin,
                   generation, simple_rag, rag_system>>

NextWeb ==
    \E t \in 1..MaxRequests :
        \/ \E json_files \in Directories : WebCheck(t, json_files)
        \/ WebAppend(t)
        \/ WebBuildIndex(t)
        \/ WebSetLoaded(t)
        \/ WebReturn(t)

SpecWeb == Init /\ [][NextWeb]_vars

(***************************************************************************)
(* Properties of the retrieval core                                        *)
(***************************************************************************)
\* the last call was a search
Searched == call.op = "search_documents"

\* the terms of one document and of the corpus
TermsOf(doc) == Range(Words[doc])

CorpusTerms == UNION {TermsOf(documents[i]) : i \in DOMAIN documents}

\* the documents (as indices of self.documents) that hold the term
DocsWith(w) == {i \in DOMAIN documents : w \in TermsOf(documents[i])}

\* the query vector and the similarities of the last search
QueryVectorOfCall == QueryVector(Words[call.query], idf_scores)

SimilarityOf(d) == Similarity(QueryVectorOfCall, document_vectors[d])

\* the documents whose similarity the last search computed
ScoredDocs ==
    {d \in DOMAIN document_vectors : Scored(QueryVectorOfCall, document_vectors[d])}

DocIds(rs) == {rs[i].doc_id : i \in DOMAIN rs}

\* 0.01 squared, to compare with the squares of the similarities
FloorSq == RatMul(RelevanceFloor, RelevanceFloor)

\* higher score first, equal scores by increasing doc_id
Ordered(rs) ==
    \A i, j \in DOMAIN rs :
        i < j => \/ RatGT(rs[i].score, rs[j].score)
                 \/ /\ rs[i].score = rs[j].score
                    /\ rs[i].doc_id < rs[j].doc_id

\* C1: a query that yields no token (empty, punctuation, stop words, tokens of
\* at most two characters), or none of whose tokens is a term of the corpus,
\* makes search_documents return the empty list without raising and without
\* dividing by zero.
C1_DegenerateQueryReturnsEmpty ==
    (Searched /\ Range(Words[call.query]) \cap CorpusTerms = {}) =>
        /\ results = << >>
        /\ ranked = << >>
        /\ raised = "none"
        /\ Zero \notin divisors

\* a non-empty query without tokens was run with top_k >= 1 against an index
\* that holds terms of non-zero weight
C1_Witness ==
    /\ Searched
    /\ call.query # << >>
    /\ Words[call.query] = << >>
    /\ call.top_k >= 1
    /\ \E w \in DOMAIN idf_scores : idf_scores[w] # Zero

\* C2: on an instance that holds no document, build_index (called directly or
\* by load_documents) raises nothing, divides by no zero and leaves the index
\* tables empty, and a search returns the empty list.
C2_EmptyCorpusIsSafe ==
    documents = << >> =>
        /\ raised = "none"
        /\ Zero \notin divisors
        /\ DOMAIN idf_scores = {}
        /\ DOMAIN document_vectors = {}
        /\ DOMAIN word_index = {}
        /\ results = << >>

\* the index of an empty corpus was built and then searched with a query that
\* has tokens
C2_Witness ==
    /\ Searched
    /\ documents = << >>
    /\ builds >= 1
    /\ Words[call.query] # << >>
    /\ call.top_k >= 1

\* C3 (amended): a scored document survives to the ranking exactly when its
\* similarity is strictly greater than 0.01; a document that is not scored
\* (empty vector, or a zero magnitude) never survives, and no returned score
\* is 0.01 or less.
C3_AboveFloorSurvives ==
    (Searched /\ raised = "none") =>
        /\ \A d \in ScoredDocs :
              d \in DocIds(ranked) <=> RatGT(SimilarityOf(d), FloorSq)
        /\ \A d \in DOMAIN document_vectors \ ScoredDocs : d \notin DocIds(ranked)
        /\ \A i \in DOMAIN results : RatGT(results[i].score, FloorSq)

\* a document whose similarity is exactly 0.01 was scored and discarded
C3_Witness ==
    /\ Searched
    /\ raised = "none"
    /\ \E d \in ScoredDocs : SimilarityOf(d) = FloorSq /\ d \notin DocIds(ranked)

\* C3 as the specification states it: every scored document whose similarity
\* is 0.01 or more survives to the ranking, and no returned score is below
\* 0.01.
C3_AtFloorSurvives ==
    (Searched /\ raised = "none") =>
        /\ \A d \in ScoredDocs :
              ~RatGT(FloorSq, SimilarityOf(d)) => d \in DocIds(ranked)
        /\ \A i \in DOMAIN results : ~RatGT(FloorSq, results[i].score)

\* C4: the list a search returns, and the ranking it is cut from, are ordered
\* by score, highest first, and entries of equal score by increasing doc_id.
C4_RankedByScoreThenDocId == Ordered(ranked) /\ Ordered(results)

\* a search ranked a document ahead of one of lower doc_id and lower score,
\* and two documents of equal score behind it
C4_Witness ==
    /\ Searched
    /\ call.top_k >= 2
    /\ Len(results) >= 2
    /\ \E i, j \in DOMAIN ranked :
          /\ i < j
          /\ ranked[i].doc_id > ranked[j].doc_id
          /\ RatGT(ranked[i].score, ranked[j].score)
    /\ \E i, j \in DOMAIN ranked :
          /\ i < j
          /\ ranked[i].score = ranked[j].score

\* C5: for top_k >= 1 the search returns the first min(top_k, m) of the m
\* ranked survivors: never more than top_k entries, and no omitted survivor
\* has a higher score than a returned one.
C5_TopKTruncates ==
    (Searched /\ raised = "none" /\ call.top_k >= 1) =>
        /\ Len(results) = (IF call.top_k < Len(ranked) THEN call.top_k ELSE Len(ranked))
        /\ \A i \in DOMAIN results : results[i] = ranked[i]
        /\ \A i \in DOMAIN results, j \in DOMAIN ranked :
              j > Len(results) => ~RatGT(ranked[j].score, results[i].score)

\* more documents survived than top_k, and top_k of them were returned
C5_Witness ==
    /\ Searched
    /\ call.top_k >= 1
    /\ Len(ranked) > call.top_k
    /\ Len(results) = call.top_k

\* C6 as the specification states it: with top_k zero or negative a search
\* returns the empty list.
C6_NonPositiveTopKReturnsEmpty ==
    (Searched /\ call.top_k <= 0) => results = << >>

\* C7: no call executes a division by zero (the term frequencies of
\* build_index and of the query, the cosine quotient); a search raises
\* nothing, and it leaves out of the ranking a document whose vector is empty
\* or has magnitude zero, and every document when the query vector has
\* magnitude zero.
C7_SearchNeverDividesByZero ==
    /\ Zero \notin divisors
    /\ Searched =>
          /\ raised = "none"
          /\ \A d \in DOMAIN document_vectors :
                (\/ DOMAIN document_vectors[d] = {}
                 \/ MagnitudeSq(document_vectors[d]) = Zero
                 \/ MagnitudeSq(QueryVectorOfCall) = Zero) => d \notin DocIds(ranked)

\* a query with indexed terms was run against a document whose vector is not
\* empty and holds only zero weights
C7_Witness ==
    /\ Searched
    /\ DOMAIN QueryVectorOfCall # {}
    /\ \E d \in DOMAIN document_vectors :
          /\ DOMAIN document_vectors[d] # {}
          /\ MagnitudeSq(document_vectors[d]) = Zero

\* C8: the document frequency build_index computes for a term is the number
\* of documents that hold the term, however often it occurs in one of them,
\* and that number is the one the term's IDF is computed from.
C8_DocumentFrequencyCountsDocuments ==
    /\ DOMAIN doc_frequencies = CorpusTerms
    /\ \A w \in DOMAIN doc_frequencies :
          doc_frequencies[w] = Cardinality(DocsWith(w))
    /\ (call.op \in {"build_index", "load_documents"} /\ raised = "none") =>
          \A w \in CorpusTerms :
              idf_scores[w] = Log(total_docs, Cardinality(DocsWith(w)))

\* an index was built of a corpus in which a term occurs twice in one
\* document and once in another
C8_Witness ==
    /\ call.op \in {"build_index", "load_documents"}
    /\ raised = "none"
    /\ \E w \in CorpusTerms :
          /\ Cardinality(DocsWith(w)) >= 2
          /\ \E i \in DocsWith(w) : Count(Words[documents[i]], w) >= 2

\* C9 as the specification states it: in every state the loads and builds
\* reach, the N of the IDF is the number of documents held, every document
\* frequency lies in 1 .. N, and no IDF is negative.
C9_TotalDocsIsTheCorpusSize ==
    /\ total_docs = Len(documents)
    /\ \A w \in DOMAIN doc_frequencies :
          1 <= doc_frequencies[w] /\ doc_frequencies[w] <= total_docs
    /\ \A w \in DOMAIN idf_scores : idf_scores[w].n >= 0

\* C10 as the specification states it: the IDF of an indexed term is
\* ln(N / df) for the N documents held, so a term of every document has IDF
\* zero, and a query made of such terms only returns nothing.
C10_UbiquitousTermHasZeroIdf ==
    /\ \A w \in DOMAIN idf_scores :
          idf_scores[w] = Log(Len(documents), Cardinality(DocsWith(w)))
    /\ \A w \in DOMAIN idf_scores :
          DocsWith(w) = DOMAIN documents => idf_scores[w] = Zero
    /\ (/\ Searched
        /\ \A w \in Range(Words[call.query]) : DocsWith(w) = DOMAIN documents)
          => results = << >>

\* the number of positions of the token sequence that hold the term
Occurrences(words, w) == Cardinality({i \in DOMAIN words : words[i] = w})

\* (occurrences of the term / number of tokens) * IDF(term), for every term
\* of the token sequence that has an entry in the IDF table
TfIdf(words) ==
    [w \in Range(words) \cap DOMAIN idf_scores |->
        RatMul(Rat(Occurrences(words, w), Len(words)), idf_scores[w])]

\* C11, amended: every document vector and the query vector of every search
\* give each term of the text that has an entry in the IDF table the weight
\* (occurrences / number of tokens) * IDF, and hold nothing else; the entry
\* is there also when the IDF of the term is zero.
C11_VectorWeights ==
    /\ \A d \in DOMAIN document_vectors :
          document_vectors[d] = TfIdf(Words[documents[d + 1]])
    /\ Searched => last_query_vector = TfIdf(Words[call.query])

\* a search whose query vector and one document vector hold an entry of
\* weight zero for a term of IDF zero, next to an entry of non-zero weight
C11_Witness ==
    /\ Searched
    /\ \E w \in DOMAIN last_query_vector :
          /\ idf_scores[w] = Zero
          /\ \E d \in DOMAIN document_vectors :
                /\ w \in DOMAIN document_vectors[d]
                /\ \E v \in DOMAIN document_vectors[d] :
                      document_vectors[d][v] # Zero
    /\ \E d \in DOMAIN document_vectors :
          \E w \in DOMAIN document_vectors[d] :
              Occurrences(Words[documents[d + 1]], w) >= 2

\* C11 as the specification states it: the vectors hold entries only for
\* terms whose IDF is not zero.
C11_EntriesOnlyForNonZeroIdf ==
    /\ \A d \in DOMAIN document_vectors :
          \A w \in DOMAIN document_vectors[d] : idf_scores[w] # Zero
    /\ \A w \in DOMAIN last_query_vector : idf_scores[w] # Zero

\* the documents (as doc_ids) that have no token after normalization
EmptyDocs == {i - 1 : i \in {j \in DOMAIN documents : Words[documents[j]] = << >>}}

\* C12: a document without tokens after normalization has the empty vector
\* once it is indexed, is in no result of any search, and causes no error:
\* the only error of a load or build is the logarithm of a zero total_docs
\* over a corpus that has terms, and no search divides by zero.
C12_EmptyDocumentNeverRetrieved ==
    /\ \A d \in EmptyDocs \cap DOMAIN document_vectors :
          document_vectors[d] = EmptyDict
    /\ EmptyDocs \cap (DocIds(results) \cup DocIds(ranked)) = {}
    /\ (call.op \in {"build_index", "load_documents"} /\ raised # "none") =>
          (total_docs = 0 /\ CorpusTerms # {})
    /\ (Searched /\ EmptyDocs # {}) => (raised = "none" /\ Zero \notin divisors)

\* a search that returned a document of a corpus that also holds an indexed
\* document made of stop words only
C12_Witness ==
    /\ Searched
    /\ EmptyDocs \cap DOMAIN document_vectors # {}
    /\ results # << >>
    /\ call.top_k >= Len(documents)

\* the fields of the instance that make up the index
index_fields ==
    <<documents, metadata, word_index, idf_scores, document_vectors, total_docs>>

\* C15: a call of search_documents, whatever its query and top_k, leaves
\* documents, metadata, word_index, idf_scores, document_vectors and
\* total_docs as they were.
C15_SearchIsReadOnly ==
    [][call'.op = "search_documents" => UNCHANGED index_fields]_vars

\* a search over a built index that returned a document, for a query one of
\* whose words the index does not hold
C15_Witness ==
    /\ Searched
    /\ results # << >>
    /\ Range(Words[call.query]) \ DOMAIN word_index # {}

\* C17: build_index called on a corpus that was just built (by a build or by
\* the build at the end of a load), with documents and total_docs unchanged
\* since, leaves idf_scores and document_vectors as the former build left them.
C17_RebuildIsIdempotent ==
    [][(call'.op = "build_index" /\ call.op \in {"build_index", "load_documents"})
          => (idf_scores' = idf_scores /\ document_vectors' = document_vectors)]_vars

\* a direct build_index after a load, over an index with a non-zero IDF and
\* a non-zero weight
C17_Witness ==
    /\ call.op = "build_index"
    /\ raised = "none"
    /\ documents # << >>
    /\ \E w \in DOMAIN idf_scores : idf_scores[w] # Zero
    /\ \E d \in DOMAIN document_vectors :
          \E w \in DOMAIN document_vectors[d] : document_vectors[d][w] # Zero

\* "land acquisition"
QueryScenario == <<"l","a","n","d"," ","a","c","q","u","i","s","i","t","i","o","n">>

\* the corpus of the scenario is what the instance holds
ScenarioLoaded ==
    /\ documents = <<Cleaned[TextLandPolicy], Cleaned[TextToll],
                     Cleaned[TextLandCompensation]>>
    /\ total_docs = 3
    /\ raised = "none"

\* C19: over the corpus "land acquisition policy for highways", "toll
\* collection procedures", "land acquisition compensation guidelines" a query
\* that tokenizes as "land acquisition" does, run with top_k >= 2, returns
\* the first and the third document and not the second, whose similarity is
\* computed and is 0; the three texts are indexed as given.
C19_LandAcquisitionScenario ==
    /\ preprocess_text(QueryScenario) = <<"land", "acquisition">>
    /\ Cleaned[TextLandPolicy] = TextLandPolicy
    /\ Cleaned[TextToll] = TextToll
    /\ Cleaned[TextLandCompensation] = TextLandCompensation
    /\ (/\ Searched
        /\ ScenarioLoaded
        /\ Words[call.query] = preprocess_text(QueryScenario)
        /\ call.top_k >= 2)
          => /\ [i \in DOMAIN results |-> results[i].doc_id] = <<0, 2>>
             /\ DocIds(ranked) = {0, 2}
             /\ 1 \in ScoredDocs
             /\ SimilarityOf(1) = Zero
             /\ RatGT(SimilarityOf(0), FloorSq)
             /\ RatGT(SimilarityOf(2), FloorSq)

\* the scenario was run: the three documents loaded, the query searched
C19_Witness ==
    /\ Searched
    /\ ScenarioLoaded
    /\ Words[call.query] = <<"land", "acquisition">>
    /\ call.top_k >= 2
    /\ Len(results) = 2

\* the text of the file the i-th document was loaded from, as it was supplied
SuppliedText(i) == FileText(CHOOSE f \in Files : f.stem = metadata[i].file_id)

\* C14 as the specification states it: the tokens a document is indexed
\* under are the tokens search_documents derives from a query string
\* identical to the text the document was supplied with.
C14_TokenizerSymmetry ==
    \A i \in DOMAIN documents :
        Words[documents[i]] = preprocess_text(SuppliedText(i))

\* the text of the call in lower case
Lowered == [i \in DOMAIN input_text |-> ToLower(input_text[i])]

\* [a-z0-9]
TokenChar(c) == c \in Lower \cup Digit

\* the maximal runs of [a-z0-9] of the lowered text, as pairs of positions
MaximalRuns ==
    {r \in (DOMAIN Lowered) \X (DOMAIN Lowered) :
        /\ r[1] <= r[2]
        /\ \A k \in r[1]..r[2] : TokenChar(Lowered[k])
        /\ r[1] = 1 \/ ~TokenChar(Lowered[r[1] - 1])
        /\ r[2] = Len(Lowered) \/ ~TokenChar(Lowered[r[2] + 1])}

RunText(r) == Join(SubSeq(Lowered, r[1], r[2]))

\* the runs longer than 2 characters that are no stop words
KeptRuns ==
    {r \in MaximalRuns : r[2] - r[1] + 1 > 2 /\ RunText(r) \notin stop_words}

\* C13: preprocess_text returns, in the order of the input, exactly the
\* maximal runs of [a-z0-9] of the lowered text that are longer than 2
\* characters and are no stop words (so nothing for a text without such a
\* run), and raises nothing.
C13_TokensAreTheKeptRuns ==
    call.op = "preprocess_text" =>
        /\ raised = "none"
        /\ Len(tokens) = Cardinality(KeptRuns)
        /\ \A r \in KeptRuns :
              tokens[Cardinality({q \in KeptRuns : q[1] < r[1]}) + 1] = RunText(r)

\* a text with a kept word, a dropped stop word in mixed case, a dropped run
\* of at most two characters and a separator that is neither a letter nor a space
C13_Witness ==
    /\ call.op = "preprocess_text"
    /\ tokens # << >>
    /\ \E r \in MaximalRuns :
          /\ RunText(r) \in stop_words
          /\ RunText(r) # Join(SubSeq(input_text, r[1], r[2]))
    /\ \E r \in MaximalRuns : r[2] - r[1] + 1 <= 2 /\ RunText(r) \notin stop_words
    /\ \E i \in DOMAIN input_text : input_text[i] \in {"_", "!"}

\* C16 as the specification states it: the idf_scores and the
\* document_vectors a search has read while another thread loads are those
\* of one build, the one before the load or the one the load leaves.
C16_SearchSeesOneBuild ==
    searcher.pc = "done" =>
        IndexRead(searcher.idf_scores, searcher.document_vectors)
            \in {snapshot.before, snapshot.after}

\* the float results of the last search
FloatSearched == call.op = "search_documents" /\ float_document_vectors # EmptyDict

\* x * y = u * v exactly, for non-zero floats
FloatProductsEqual(x, y, u, v) ==
    IF x.e + y.e >= u.e + v.e
    THEN NatShiftLeft(NatMul(x.m, y.m), (x.e + y.e) - (u.e + v.e)) = NatMul(u.m, v.m)
    ELSE NatMul(x.m, y.m) = NatShiftLeft(NatMul(u.m, v.m), (u.e + v.e) - (x.e + y.e))

\* vector a is k times vector b for a real k > 0: the same terms, the same
\* terms of weight zero, and the non-zero weights in one proportion
ScalarMultiple(a, b) ==
    /\ Range(FloatKeysOf(a)) = Range(FloatKeysOf(b))
    /\ \E w \in Range(FloatKeysOf(a)) : FloatGet(a, w) # FloatZero
    /\ \A w \in Range(FloatKeysOf(a)) :
           (FloatGet(a, w) = FloatZero) = (FloatGet(b, w) = FloatZero)
    /\ \A w \in Range(FloatKeysOf(a)) : \A v \in Range(FloatKeysOf(a)) :
           (FloatGet(a, w) # FloatZero /\ FloatGet(a, v) # FloatZero) =>
               FloatProductsEqual(FloatGet(a, w), FloatGet(b, v),
                                  FloatGet(a, v), FloatGet(b, w))

\* two results of one document each (none or one record) agree
SameOutcome(ra, rb) ==
    \/ ra = << >> /\ rb = << >>
    \/ ra # << >> /\ rb # << >> /\ ra[1].score = rb[1].score

\* C18 as the specification states it: after a search, two documents whose
\* vectors are positive scalar multiples of each other got the same
\* similarity: both are in the ranking with equal scores, or neither is.
C18_ScaleInvariance ==
    FloatSearched =>
        \A a \in DOMAIN float_document_vectors :
            \A b \in DOMAIN float_document_vectors :
                ScalarMultiple(float_document_vectors[a], float_document_vectors[b]) =>
                    SameOutcome(
                        FloatDocResult(FloatVector(Words[call.query], float_idf_scores), a),
                        FloatDocResult(FloatVector(Words[call.query], float_idf_scores), b))

\* the float 1.0
FloatOne == [m |-> <<0, 0, 0, 128>>, e |-> 0 - 52]

\* C20 as the specification states it: no score of a result is above 1.0
\* (none is below 0.0, the floats of the model have no sign).
C20_ScoreInUnitInterval ==
    \A i \in DOMAIN float_results : ~FloatGT(float_results[i].score, FloatOne)

\* C23: once an index build has run, the IDF table has an entry for a term
\* exactly when the term is a token of at least one indexed document; a query
\* term without an entry is not in the query vector of a search, which holds
\* exactly the query terms that have one, and its product with the weight of
\* any document is zero.
C23_IdfEntriesAreCorpusTerms ==
    /\ builds > 0 => DOMAIN idf_scores = CorpusTerms
    /\ Searched =>
          /\ DOMAIN last_query_vector = Range(Words[call.query]) \cap DOMAIN idf_scores
          /\ \A w \in Range(Words[call.query]) \ DOMAIN idf_scores :
                /\ w \notin CorpusTerms
                /\ \A d \in DOMAIN document_vectors :
                      RatMul(Get(last_query_vector, w), Get(document_vectors[d], w)) = Zero

\* a search whose query has a term of the corpus and a term that is in no
\* document, after a build over documents with terms
C23_Witness ==
    /\ Searched
    /\ builds > 0
    /\ CorpusTerms # {}
    /\ Range(Words[call.query]) \cap DOMAIN idf_scores # {}
    /\ Range(Words[call.query]) \ DOMAIN idf_scores # {}
    /\ results # << >>

\* C24: documents, metadata and document_vectors cover the same positions
\* 0 .. N-1 in every state (before the first load N = 0), and every entry of
\* the ranked and of the returned list of a search has a doc_id d with
\* 0 <= d < N, the text documents[d], the metadata metadata[d], and a doc_id
\* no other entry of the list has.
C24_PositionsAgree ==
    /\ Len(metadata) = Len(documents)
    /\ DOMAIN document_vectors = 0..(Len(documents) - 1)
    /\ \A rs \in {ranked, results} :
          /\ \A i \in DOMAIN rs :
                /\ rs[i].doc_id \in 0..(Len(documents) - 1)
                /\ rs[i].text = documents[rs[i].doc_id + 1]
                /\ rs[i].metadata = metadata[rs[i].doc_id + 1]
          /\ \A i, j \in DOMAIN rs : rs[i].doc_id = rs[j].doc_id => i = j

\* a search that returns two documents of a corpus loaded by two calls of
\* load_documents that both returned
C24_Witness ==
    /\ Searched
    /\ builds = 2
    /\ num_docs = Len(documents)
    /\ Len(documents) > 2
    /\ Len(results) = 2
    /\ metadata[results[1].doc_id + 1] # metadata[results[2].doc_id + 1]

\* C25: once an index build has run, word_index has a posting list for
\* exactly the terms of the corpus, and the list of a term holds the doc_ids
\* of the documents that have the term, each once: its length is the document
\* frequency of the term.
C25_PostingListsHoldEachDocumentOnce ==
    builds > 0 =>
        /\ DOMAIN word_index = CorpusTerms
        /\ \A w \in DOMAIN word_index :
              /\ Range(word_index[w]) = {i - 1 : i \in DocsWith(w)}
              /\ Len(word_index[w]) = Cardinality(DocsWith(w))

\* the doc_ids and scores of a result list, in its order
IdsAndScores(rs) == [i \in DOMAIN rs |-> <<rs[i].doc_id, rs[i].score>>]

\* C21: two instances that loaded the same texts in the same order under
\* different metadata return, for the same query and top_k, the same doc_ids
\* with the same scores in the same order, and every result of either carries
\* the metadata record its instance holds for the document.
C21_MetadataNeverInfluencesScoring ==
    /\ twin.left.documents = twin.right.documents
    /\ IdsAndScores(twin.left.results) = IdsAndScores(twin.right.results)
    /\ \A self \in {twin.left, twin.right} :
          \A i \in DOMAIN self.results :
              self.results[i].metadata = self.metadata[self.results[i].doc_id + 1]

\* a search that returns two documents from each instance, under metadata
\* that differ
C21_Witness ==
    /\ twin.call.op = "search_documents"
    /\ Len(twin.left.results) = 2
    /\ Len(twin.right.results) = 2
    /\ \A i \in DOMAIN twin.left.results :
          twin.left.results[i].metadata # twin.right.results[i].metadata

\* the last call of generate_answer
Generated == generation.op = "generate_answer"

\* the external call returned status 200 and a body that is a non-empty list
ListReturned ==
    /\ generation.response.error = "none"
    /\ generation.response.status_code = 200
    /\ generation.response.json = "list"
    /\ generation.response.items # << >>

\* C22: whatever the question, the context and the outcome of the external
\* call (an exception of requests.post, a status other than 200, a body that
\* is not JSON, not a list or an empty list, an item that is no dict or has
\* no generated_text or None for it, a text too short), generate_answer
\* raises nothing and returns a text that is not empty.
C22_GenerateAnswerFailsSoft ==
    Generated => generation.raised = "none" /\ Len(generation.returned) > 0

\* calls whose external call raised, and calls that got status 200 and a
\* list whose first item is not a dict or holds None, for which result[0].get
\* and `prompt in generated_text` raise
C22_Witness ==
    /\ Generated
    /\ generation.raised = "none"
    /\ \/ generation.response.error = "Timeout"
       \/ /\ ListReturned
          /\ \/ ~generation.response.items[1].dict
             \/ /\ generation.response.items[1].key
                /\ ~generation.response.items[1].str

\* C26: generate_answer returns the cleaned text of the external model when
\* the call returned status 200, the body is a non-empty list and the cleaned
\* answer has more than 20 characters, and only then; in every other case it
\* returns what generate_fallback_answer returns for the question and the
\* context.
C26_ModelTextOrFallback ==
    Generated =>
        generation.returned =
            IF ListReturned /\ Len(generation.answer) > 20
            THEN generation.answer
            ELSE generate_fallback_answer(generation.question, generation.context)

\* a call that returned the cleaned text of the model, which is not the raw
\* text; the witness of the other side is a call that got a text of exactly
\* 20 characters
C26_Witness ==
    /\ Generated
    /\ ListReturned
    /\ Len(generation.answer) > 20
    /\ generation.returned = generation.answer
    /\ generation.answer # generation.response.items[1].tail
    /\ generation.returned #
           generate_fallback_answer(generation.question, generation.context)

\* the doc_ids of the documents of the SimpleRAGSystem instance that hold the
\* word
SimpleDocsWith(w) ==
    {i - 1 : i \in {j \in DOMAIN simple_rag.documents :
                       w \in Range(Words[simple_rag.documents[j]])}}

\* C27: after the documents are loaded and build_index has run once, the
\* document frequency calculate_tf_idf takes for a word, the length of
\* word_index[word] (line 97), is the number of the documents that hold the
\* word, however often the word occurs in one of them.
C27_DocumentFrequencyCountsDocuments ==
    simple_rag.builds = 1 =>
        \A w \in DOMAIN simple_rag.word_index :
            Len(simple_rag.word_index[w]) = Cardinality(SimpleDocsWith(w))

\* C28: after one build, a search with top_k >= N returns exactly the
\* documents that hold a token of the query, each with a score above 0, in
\* the order of non-increasing score.
C28_EveryMatchingDocumentScoresPositive ==
    (/\ simple_rag.call.op = "search"
     /\ simple_rag.builds = 1
     /\ simple_rag.call.top_k >= Len(simple_rag.documents)) =>
        /\ DocIds(simple_rag.results) =
               UNION {SimpleDocsWith(w) : w \in Range(Words[simple_rag.call.query])}
        /\ \A i \in DOMAIN simple_rag.results : simple_rag.results[i].score.n > 0
        /\ \A i, j \in DOMAIN simple_rag.results :
              i < j => ~RatGT(simple_rag.results[j].score, simple_rag.results[i].score)

\* the listings of the directory that the threads past line 29 hold (one
\* listing at most: the directory is the same for all)
Listings ==
    {requests[t].json_files :
        t \in {u \in DOMAIN requests : requests[u].pc # "idle" /\ requests[u].next > 0}}

\* C29: whatever the interleaving of the calls of load_documents that the
\* request threads make, no document of the directory is appended more than
\* once (documents and metadata never hold more entries than the directory
\* has files with an extracted_text), no document is indexed more than once
\* (a doc_id is in the posting list of a word as often as the word occurs in
\* the document, at most), and all the calls that have returned have
\* returned the same count.
C29_LoadsAtMostOnce ==
    /\ \A json_files \in Listings :
          /\ Len(rag_system.documents) <=
                 Cardinality({i \in DOMAIN json_files :
                                 json_files[i].valid /\ json_files[i].extracted_text # << >>})
          /\ Len(rag_system.metadata) = Len(rag_system.documents)
    /\ \A w \in DOMAIN rag_system.word_index :
          \A i \in DOMAIN rag_system.documents :
              Cardinality({k \in DOMAIN rag_system.word_index[w] :
                              rag_system.word_index[w][k] = i - 1})
                  <= Count(Words[rag_system.documents[i]], w)
    /\ \A t, u \in DOMAIN requests :
          requests[t].pc = "returned" /\ requests[u].pc = "returned"
              => requests[t].total_docs = requests[u].total_docs

\* the doc_ids of a list of results, in its order
FloatDocIds(rs) == [i \in DOMAIN rs |-> rs[i].doc_id]

\* the words of the last query that have an entry in the idf table: the
\* query without the tokens that occur in no document of the corpus
FloatCorpusWords ==
    LET InIdf(w) == w \in DOMAIN float_idf_scores
    IN  SelectSeq(Words[call.query], InIdf)

\* C30 as the specification states it: a search whose query keeps a token
\* of the corpus returns the same documents in the same order as the search
\* for the query without its tokens that occur in no document, under the
\* same top_k.
C30_UnseenTokensChangeNothing ==
    (FloatSearched /\ FloatCorpusWords # << >>) =>
        FloatDocIds(float_results) =
            FloatDocIds(Slice(FloatRanking(FloatVector(FloatCorpusWords, float_idf_scores)),
                              call.top_k))

====
